---- MODULE Spec2Model ----
(***************************************************************************)
(* A model of the retrieval-and-agent orchestration engine of cc-rag:      *)
(* the tool-calling loop run_agent_loop with its document-analysis         *)
(* sub-agent (backend/app/services/agent_service.py) and the SSE generator *)
(* of send_message (backend/app/api/routes/chat.py).                       *)
(*                                                                         *)
(* Text is modelled as a sequence of tokens, so that string concatenation  *)
(* is sequence concatenation and "begins with" is a test of the first      *)
(* token.  Events are records tagged by their class.                       *)
(***************************************************************************)
EXTENDS Naturals, Integers, Sequences, FiniteSets, TLC

VARIABLES
    mode,      \* which entry point this run exercises: "agent" or "chat"
    stack,     \* the active run_agent_loop invocations, outermost first
    nCalls,    \* tool calls the model has requested so far (all levels)
    cost,      \* their total weight (see MaxCost)
    deep,      \* 0, or the parity (1, 2) of the nesting levels below the modelled ones
    gen,       \* send_message.event_generator: its position and what it has produced
    unit       \* a function examined on its own: its inputs, position and result

vars == <<mode, stack, nCalls, cost, deep, gen, unit>>

----------------------------------------------------------------------------
(* Program constants *)

MAX_ROUNDS == 5

(* Bounds of the model *)

\* The total weight of the tool calls the model requests in one run, over
\* all nesting levels: a text_to_sql call that succeeds weighs 1, any other
\* tool call 2.
MaxCost == 5
\* Tool calls in one model response.
MaxCallsPerResponse == 2
\* Nested loops modelled in full below the top-level loop.
MaxDepth == 1
\* Text deltas of one streaming call.
MaxDeltas == 2

----------------------------------------------------------------------------
(* Texts *)

FAILED_PREFIX == "Tool execution failed: "
UNKNOWN_PREFIX == "Unknown tool: "
NO_DOCUMENTS == <<"No relevant documents found.">>

\* str(e) of the exception a collaborator raised
ErrText == "err"

\* The k-th delta of a streaming call: a non-empty text, distinct per position.
Delta(k) == <<"d" \o ToString(k)>>

ToolNames == {"retrieve_documents", "text_to_sql", "web_search",
              "analyze_document", "bogus"}

----------------------------------------------------------------------------
(* Events *)

ToolCallEvent(name, arguments) ==
    [type |-> "call", name |-> name, arguments |-> arguments]
ToolResultEvent(name, result) ==
    [type |-> "result", name |-> name, result |-> result]
SourcesEvent(sources) == [type |-> "sources", sources |-> sources]
ImagesEvent(images) == [type |-> "images", images |-> images]
SubAgentEvent(inner) == [type |-> "sub", inner |-> inner]
TextEvent(text) == [type |-> "text", text |-> text]

----------------------------------------------------------------------------
(* AgentContext and the locals of one run_agent_loop invocation *)

UserMessage == [role |-> "user"]

NewLoop(chat_messages) ==
    [ pc            |-> "decide",
      chat_messages |-> chat_messages,
      sources       |-> <<>>,
      image_refs    |-> <<>>,
      messages      |-> chat_messages,
      round         |-> 0,
      calls         |-> <<>>,
      idx           |-> 0,
      out           |-> <<>>,       \* the events this invocation has yielded
      round_base    |-> 0,          \* how many of them came before the current round
      final_answer  |-> <<>>,       \* of the _execute_analyze_document running it
      decides       |-> 0,          \* chat_completion_with_tools calls made
      streams       |-> 0,          \* chat_completion_stream calls made
      stream_arg    |-> <<>>,       \* messages passed to the streaming call
      streamed      |-> <<>>,       \* deltas the streaming call has produced
      failed        |-> "no" ]      \* which model call raised: "no", "decide", "stream"

----------------------------------------------------------------------------
(* _execute_analyze_document: what it does with one event of the nested loop *)

\* Mutant: every nested event is wrapped and passed on.
AnalyzeOnEventWrapAll(event) == <<SubAgentEvent(event)>>

\* What the executor yields to the parent loop for one nested event.
AnalyzeOnEvent(event) ==
    IF event.type \in {"call", "result"} THEN <<SubAgentEvent(event)>>
    ELSE IF event.type = "text" THEN <<SubAgentEvent(event)>>
    ELSE <<>>

\* Mutant: final_answer is assigned, not extended.
AnalyzeAccumulateLast(final_answer, event) ==
    IF event.type = "text" THEN event.text ELSE final_answer

\* final_answer after one nested event.
AnalyzeAccumulate(final_answer, event) ==
    IF event.type = "text" THEN final_answer \o event.text ELSE final_answer

\* run_agent_loop: what it yields for one item the executor yields
\* (a SubAgentEvent is passed on, the final string is kept as the result).
ParentOnSubEvent(sub_event) ==
    IF sub_event.type = "sub" THEN <<sub_event>> ELSE <<>>

\* What a loop yields when the nested loop it runs through
\* _execute_analyze_document yields ev.
FromNested(ev) ==
    LET up == AnalyzeOnEvent(ev)
    IN  IF up = <<>> THEN <<>> ELSE ParentOnSubEvent(up[1])

RECURSIVE Yield(_, _, _)
RECURSIVE YieldAll(_, _, _)

\* Loop d of stk yields ev: its consumer is the caller (d = 1) or the
\* _execute_analyze_document of loop d-1, which runs synchronously.
Yield(stk, d, ev) ==
    LET s1 == [stk EXCEPT ![d].out = Append(@, ev)]
    IN  IF d = 1 THEN s1
        ELSE YieldAll([s1 EXCEPT ![d].final_answer = AnalyzeAccumulate(@, ev)],
                      d - 1, FromNested(ev))

YieldAll(stk, d, evs) ==
    IF evs = <<>> THEN stk
    ELSE YieldAll(Yield(stk, d, Head(evs)), d, Tail(evs))

----------------------------------------------------------------------------
(* Tool executors.  The outcome o is what the collaborators did. *)

Failed(e) == <<FAILED_PREFIX, e>>

\* _execute_retrieve on context f for the tool call id.
ExecuteRetrieve(f, id, o) ==
    CASE o = "raise" ->
           [raised |-> TRUE, result |-> <<>>,
            sources |-> f.sources, image_refs |-> f.image_refs]
      [] o = "none" ->
           [raised |-> FALSE, result |-> NO_DOCUMENTS,
            sources |-> f.sources, image_refs |-> f.image_refs]
      [] o = "src" ->
           [raised |-> FALSE,
            result |-> IF f.image_refs = <<>> THEN <<"context">>
                       ELSE <<"context", "figures">>,
            sources |-> <<id>>, image_refs |-> f.image_refs]
      [] OTHER ->
           [raised |-> FALSE, result |-> <<"context", "figures">>,
            sources |-> <<id>>, image_refs |-> Append(f.image_refs, id)]

\* _execute_text_to_sql and _execute_web_search: no effect on the context.
ExecuteOther(f, name, o) ==
    [raised |-> (o = "raise"),
     result |-> IF o = "raise" THEN <<>> ELSE <<"output of ", name>>,
     sources |-> f.sources, image_refs |-> f.image_refs]

TOOL_EXECUTORS == {"retrieve_documents", "text_to_sql", "web_search"}

\* The outcomes an executor can have.
Outcomes(name) ==
    CASE name = "retrieve_documents" -> {"raise", "none", "src", "img"}
      [] name \in {"text_to_sql", "web_search"} -> {"ok", "raise"}
      [] name = "analyze_document" -> {"raise", "notfound", "nocontent", "run"}
      [] OTHER -> {"ok"}

\* Mutant: the executor is awaited outside any try block.
DispatchNoCatch(f, call, o) ==
    IF call.name \notin TOOL_EXECUTORS THEN
        [raises |-> FALSE, result |-> <<UNKNOWN_PREFIX, call.name>>,
         sources |-> f.sources, image_refs |-> f.image_refs]
    ELSE LET r == IF call.name = "retrieve_documents"
                  THEN ExecuteRetrieve(f, call.id, o)
                  ELSE ExecuteOther(f, call.name, o)
         IN  [raises |-> r.raised, result |-> r.result,
              sources |-> r.sources, image_refs |-> r.image_refs]

\* Mutant: the registry is indexed without the membership test, so that an
\* unknown name fails inside the try block.
DispatchNoLookupGuard(f, call, o) ==
    IF call.name \notin TOOL_EXECUTORS THEN
        [raises |-> FALSE, result |-> Failed(ErrText),
         sources |-> f.sources, image_refs |-> f.image_refs]
    ELSE LET r == IF call.name = "retrieve_documents"
                  THEN ExecuteRetrieve(f, call.id, o)
                  ELSE ExecuteOther(f, call.name, o)
         IN  [raises |-> FALSE,
              result |-> IF r.raised THEN Failed(ErrText) ELSE r.result,
              sources |-> r.sources, image_refs |-> r.image_refs]

\* run_agent_loop's dispatch of a tool other than analyze_document:
\* raises says whether an exception leaves the loop.
Dispatch(f, call, o) ==
    IF call.name \notin TOOL_EXECUTORS THEN
        [raises |-> FALSE, result |-> <<UNKNOWN_PREFIX, call.name>>,
         sources |-> f.sources, image_refs |-> f.image_refs]
    ELSE LET r == IF call.name = "retrieve_documents"
                  THEN ExecuteRetrieve(f, call.id, o)
                  ELSE ExecuteOther(f, call.name, o)
         IN  [raises |-> FALSE,
              result |-> IF r.raised THEN Failed(ErrText) ELSE r.result,
              sources |-> r.sources, image_refs |-> r.image_refs]

\* The except clause around the iteration of _execute_analyze_document.
CatchAnalyze(e) == [raises |-> FALSE, result |-> Failed(e)]

----------------------------------------------------------------------------
(* run_agent_loop: the end of one tool call and of one round *)

\* Mutant: the content of the deciding response is appended before streaming.
EnterStreamWithDecision(f) ==
    [f EXCEPT !.pc = "stream", !.streams = @ + 1,
              !.stream_arg = Append(f.messages, [role |-> "assistant"])]

\* The streaming call, made with the history accumulated so far.
EnterStream(f) ==
    [f EXCEPT !.pc = "stream", !.streams = @ + 1, !.stream_arg = f.messages]

\* Mutant: the range test is off by one.
RoundsLeftOffByOne(round) == round <= MAX_ROUNDS

\* for _round in range(MAX_ROUNDS)
RoundsLeft(round) == round < MAX_ROUNDS

\* Mutant: an unknown tool gets no ToolResultEvent.
ResultEventsKnownOnly(f, name, result) ==
    (IF name \in TOOL_EXECUTORS \cup {"analyze_document"}
     THEN <<ToolResultEvent(name, result)>> ELSE <<>>)
    \o (IF name = "retrieve_documents" /\ f.sources # <<>>
        THEN <<SourcesEvent(f.sources)>> ELSE <<>>)
    \o (IF name = "retrieve_documents" /\ f.image_refs # <<>>
        THEN <<ImagesEvent(f.image_refs)>> ELSE <<>>)

\* Mutant: sources and images are sent after every tool, not only retrieval.
ResultEventsAnyTool(f, name, result) ==
    <<ToolResultEvent(name, result)>>
    \o (IF f.sources # <<>> THEN <<SourcesEvent(f.sources)>> ELSE <<>>)
    \o (IF f.image_refs # <<>> THEN <<ImagesEvent(f.image_refs)>> ELSE <<>>)

\* The events that follow the execution of the current tool call.
ResultEvents(f, name, result) ==
    <<ToolResultEvent(name, result)>>
    \o (IF name = "retrieve_documents" /\ f.sources # <<>>
        THEN <<SourcesEvent(f.sources)>> ELSE <<>>)
    \o (IF name = "retrieve_documents" /\ f.image_refs # <<>>
        THEN <<ImagesEvent(f.image_refs)>> ELSE <<>>)

\* Mutant: the tool message carries no content.
ToolMessageEmpty(id, content) ==
    [role |-> "tool", tool_call_id |-> id, content |-> <<>>]

ToolMessage(id, content) ==
    [role |-> "tool", tool_call_id |-> id, content |-> content]

\* Mutant: the next tool call starts before the tool message is appended.
FinishToolCallNoMessage(stk, d, result) ==
    LET f    == stk[d]
        call == f.calls[f.idx]
        s1   == YieldAll(stk, d, ResultEvents(f, call.name, result))
        g0   == s1[d]
        g    == IF f.idx < Len(f.calls)
                THEN [g0 EXCEPT !.pc = "exec", !.idx = @ + 1]
                ELSE IF RoundsLeft(f.round + 1)
                     THEN [g0 EXCEPT !.pc = "decide", !.round = @ + 1]
                     ELSE EnterStream([g0 EXCEPT !.round = @ + 1])
    IN  [s1 EXCEPT ![d] = g]

\* Loop d, whose context the executor has left as it is in stk, ends its
\* current tool call with result: events, tool message, next call or round.
FinishToolCall(stk, d, result) ==
    LET f    == stk[d]
        call == f.calls[f.idx]
        s1   == YieldAll(stk, d, ResultEvents(f, call.name, result))
        g0   == [s1[d] EXCEPT
                   !.messages = Append(@, ToolMessage(call.id, result))]
        g    == IF f.idx < Len(f.calls)
                THEN [g0 EXCEPT !.pc = "exec", !.idx = @ + 1]
                ELSE IF RoundsLeft(f.round + 1)
                     THEN [g0 EXCEPT !.pc = "decide", !.round = @ + 1]
                     ELSE EnterStream([g0 EXCEPT !.round = @ + 1])
    IN  [s1 EXCEPT ![d] = g]

RECURSIVE Propagate(_, _, _)
\* An exception e leaves loop d.
Propagate(stk, d, e) ==
    IF d = 1 THEN [stk EXCEPT ![1].pc = "raised"]
    ELSE LET rest == SubSeq(stk, 1, d - 1)
             c    == CatchAnalyze(e)
         IN  IF c.raises THEN Propagate(rest, d - 1, e)
             ELSE FinishToolCall(rest, d - 1, c.result)

----------------------------------------------------------------------------
(* The initial state *)

GenOff == [pc |-> "off"]

\* send_message at the start of its generator: how the retrieval ended
\* ("ok", "failed"), whether it left chunks, and whether the image filter
\* kept images (images only with chunks).
GenStart(retrieval, chunks, image_refs) ==
    [pc |-> "start", retrieval |-> retrieval,
     chunks |-> chunks, image_refs |-> image_refs,
     system_prompt |-> IF chunks THEN "rag" ELSE "base",
     sse |-> <<>>,              \* the events sent
     full_response |-> <<>>,
     deltas |-> 0,              \* deltas the streaming call has produced
     saved |-> <<>>,            \* assistant messages stored
     failed |-> "no"]           \* what raised: "no", "llm", "save"

\* send_message before it calls retrieve.
GenNew == [GenStart("pending", FALSE, FALSE) EXCEPT !.pc = "retrieve"]

\* No function is examined on its own in a run of the loop or the generator.
NoUnit == [fn |-> "none"]

Init ==
    /\ nCalls = 0
    /\ cost = 0
    /\ deep = 0
    /\ unit = NoUnit
    /\ \/ /\ mode = "agent"
          /\ stack = <<NewLoop(<<UserMessage>>)>>
          /\ gen = GenOff
       \/ /\ mode = "chat"
          /\ stack = <<>>
          /\ gen = GenNew

\* The loop that is running: the innermost one.
Top == Len(stack)
Running(pc) ==
    /\ mode = "agent"
    /\ deep = 0
    /\ stack[Top].pc = pc

\* The responses with tool calls the model may give within the bounds:
\* the names of the calls, in order.
Responses ==
    UNION { [1..n -> ToolNames] : n \in 1..MaxCallsPerResponse }

Weight(names) ==
    Len(names) + Cardinality({i \in DOMAIN names : names[i] # "text_to_sql"})

ToolCalls(names, first) ==
    [i \in DOMAIN names |-> [id |-> first + i, name |-> names[i]]]

AssistantMessage(calls) == [role |-> "assistant", tool_calls |-> calls]

----------------------------------------------------------------------------
(* run_agent_loop, one action per step between two suspension points *)

\* chat_completion_with_tools raises.
DecideFails ==
    /\ Running("decide")
    /\ stack' = Propagate(
                  [stack EXCEPT ![Top].decides = @ + 1, ![Top].failed = "decide"],
                  Top, ErrText)
    /\ UNCHANGED <<mode, nCalls, cost, deep, gen, unit>>

\* The response holds no tool calls: the streaming call is made.
DecideNoTools ==
    /\ Running("decide")
    /\ stack' = [stack EXCEPT
                   ![Top] = EnterStream([stack[Top] EXCEPT !.decides = @ + 1])]
    /\ UNCHANGED <<mode, nCalls, cost, deep, gen, unit>>

\* The response holds tool calls: the assistant message is appended.
DecideTools ==
    /\ Running("decide")
    /\ \E names \in Responses :
         /\ cost + Weight(names) <= MaxCost
         /\ LET calls == ToolCalls(names, nCalls)
            IN  stack' = [stack EXCEPT
                     ![Top].decides = @ + 1,
                     ![Top].messages = Append(@, AssistantMessage(calls)),
                     ![Top].calls = calls,
                     ![Top].idx = 1,
                     ![Top].round_base = Len(stack[Top].out),
                     ![Top].pc = "exec"]
         /\ nCalls' = nCalls + Len(names)
         /\ cost' = cost + Weight(names)
    /\ UNCHANGED <<mode, deep, gen, unit>>

\* yield ToolCallEvent(name, arguments)
StartToolCall ==
    /\ Running("exec")
    /\ LET f    == stack[Top]
           call == f.calls[f.idx]
       IN  stack' = [Yield(stack, Top, ToolCallEvent(call.name, call.id))
                       EXCEPT ![Top].pc = "run"]
    /\ UNCHANGED <<mode, nCalls, cost, deep, gen, unit>>

\* Mutant: the nested loop is run on the context of the first loop.
ContextShared(stk, d) == 1

\* The AgentContext that loop d of stk runs on and that its executors
\* mutate: the caller's for the first loop, the sub_ctx that
\* _execute_analyze_document created for a nested one.
ContextOf(stk, d) == d

\* A tool other than analyze_document is executed, its collaborators
\* behaving as o says.
RunToolWith(o) ==
    /\ Running("run")
    /\ LET f    == stack[Top]
           call == f.calls[f.idx]
       IN  /\ call.name # "analyze_document"
           /\ o \in Outcomes(call.name)
           /\ \/ call.name # "text_to_sql" \/ o = "ok"
              \/ cost < MaxCost
           /\ cost' = IF call.name = "text_to_sql" /\ o # "ok"
                      THEN cost + 1 ELSE cost
           /\ LET t  == Dispatch(f, call, o)
                  c  == ContextOf(stack, Top)
                  s1 == [stack EXCEPT ![c].sources = t.sources,
                                      ![c].image_refs = t.image_refs]
              IN  stack' = IF t.raises THEN Propagate(s1, Top, ErrText)
                           ELSE FinishToolCall(s1, Top, t.result)
    /\ UNCHANGED <<mode, nCalls, deep, gen, unit>>

RunTool == \E o \in {"ok", "raise", "none", "src", "img"} : RunToolWith(o)

\* analyze_document ends before it starts a nested loop: a lookup raises,
\* the document is unknown, or it has no chunks.
RunAnalyzeEarlyWith(o) ==
    /\ Running("run")
    /\ LET f    == stack[Top]
           call == f.calls[f.idx]
           c    == IF o = "raise" THEN CatchAnalyze(ErrText)
                   ELSE [raises |-> FALSE,
                         result |-> IF o = "notfound"
                                    THEN <<"Document not found">>
                                    ELSE <<"No content found">>]
       IN  /\ call.name = "analyze_document"
           /\ o \in Outcomes(call.name) \ {"run"}
           /\ stack' = IF c.raises THEN Propagate(stack, Top, ErrText)
                        ELSE FinishToolCall(stack, Top, c.result)
    /\ UNCHANGED <<mode, nCalls, cost, deep, gen, unit>>

RunAnalyzeEarly ==
    \E o \in {"raise", "notfound", "nocontent"} : RunAnalyzeEarlyWith(o)

\* analyze_document starts the nested loop on a new context.
RunAnalyzeNested ==
    /\ Running("run")
    /\ LET f    == stack[Top]
           call == f.calls[f.idx]
       IN  /\ call.name = "analyze_document"
           /\ IF Top <= MaxDepth
              THEN /\ stack' = Append([stack EXCEPT ![Top].pc = "sub"],
                                      NewLoop(<<UserMessage>>))
                   /\ deep' = 0
              ELSE /\ stack' = [stack EXCEPT ![Top].pc = "sub"]
                   /\ deep' = 1
    /\ UNCHANGED <<mode, nCalls, cost, gen, unit>>

\* The streaming call produces its next delta, which the loop yields.
StreamDelta ==
    /\ Running("stream")
    /\ LET f == stack[Top]
           t == Delta(Len(f.streamed) + 1)
       IN  /\ Len(f.streamed) < MaxDeltas
           /\ stack' = Yield([stack EXCEPT ![Top].streamed = Append(@, t)],
                             Top, TextEvent(t))
    /\ UNCHANGED <<mode, nCalls, cost, deep, gen, unit>>

\* The streaming call raises, before or between deltas.
StreamFails ==
    /\ Running("stream")
    /\ stack' = Propagate([stack EXCEPT ![Top].failed = "stream"], Top, ErrText)
    /\ UNCHANGED <<mode, nCalls, cost, deep, gen, unit>>

\* Mutant: after the stream the loop goes back to the deciding call.
StreamEndDecides ==
    /\ Running("stream")
    /\ stack' = [stack EXCEPT ![Top].pc = "decide"]
    /\ UNCHANGED <<mode, nCalls, cost, deep, gen, unit>>

\* The stream is exhausted: the loop returns.  A nested loop's executor then
\* yields final_answer, which its parent takes as the tool result.
StreamEnd ==
    /\ Running("stream")
    /\ stack' = IF Top = 1 THEN [stack EXCEPT ![1].pc = "done"]
                ELSE FinishToolCall(SubSeq(stack, 1, Top - 1), Top - 1,
                                    stack[Top].final_answer)
    /\ UNCHANGED <<mode, nCalls, cost, deep, gen, unit>>

\* The nesting has no ceiling, so the loops below level MaxDepth are
\* summarised: deep is the parity of their number.  The model of such a
\* loop asks for analyze_document again, and one more loop starts.
DeepDescend ==
    /\ mode = "agent"
    /\ deep # 0
    /\ deep' = 3 - deep
    /\ UNCHANGED <<mode, stack, nCalls, cost, gen, unit>>

\* The summarised loops end: the one the innermost modelled loop started
\* either raises or streams one delta and returns.
DeepReturn ==
    /\ mode = "agent"
    /\ deep # 0
    /\ deep' = 0
    /\ \E ok \in BOOLEAN :
         stack' =
           IF ok
           THEN LET ev == TextEvent(Delta(1))
                IN  FinishToolCall(YieldAll(stack, Top, FromNested(ev)), Top,
                                   AnalyzeAccumulate(<<>>, ev))
           ELSE LET c == CatchAnalyze(ErrText)
                IN  IF c.raises THEN Propagate(stack, Top, ErrText)
                    ELSE FinishToolCall(stack, Top, c.result)
    /\ UNCHANGED <<mode, nCalls, cost, gen, unit>>

----------------------------------------------------------------------------
(* send_message.event_generator *)

SseSources == [data |-> "sources"]
SseImages == [data |-> "images"]
SseContent(chunk) == [data |-> "content", content |-> chunk]
SseError(e) == [data |-> "error", error |-> e]
SseDone == [data |-> "[DONE]"]

InGen(pc) == mode = "chat" /\ gen.pc = pc

\* if chunks: yield the sources
GenSources ==
    /\ InGen("start")
    /\ gen' = [gen EXCEPT !.pc = "images",
                          !.sse = IF gen.chunks THEN Append(@, SseSources) ELSE @]
    /\ UNCHANGED <<mode, stack, nCalls, cost, deep, unit>>

\* if image_refs: yield the images
GenImages ==
    /\ InGen("images")
    /\ gen' = [gen EXCEPT !.pc = "stream",
                          !.sse = IF gen.image_refs THEN Append(@, SseImages) ELSE @]
    /\ UNCHANGED <<mode, stack, nCalls, cost, deep, unit>>

\* One delta of llm.chat_completion_stream.
GenDelta ==
    /\ InGen("stream")
    /\ gen.deltas < MaxDeltas
    /\ LET chunk == Delta(gen.deltas + 1)
       IN  gen' = [gen EXCEPT !.deltas = @ + 1,
                              !.full_response = @ \o chunk,
                              !.sse = Append(@, SseContent(chunk))]
    /\ UNCHANGED <<mode, stack, nCalls, cost, deep, unit>>

\* Mutant: the exception is swallowed and the stream just ends.
GenExceptSilent(g, why, e) == [g EXCEPT !.pc = "end", !.failed = why]

\* The handler of the generator's try block.
GenExcept(g, why, e) ==
    [g EXCEPT !.pc = "end", !.failed = why, !.sse = Append(@, SseError(e))]

\* The streaming call raises, before or between deltas.
GenStreamFails ==
    /\ InGen("stream")
    /\ gen' = GenExcept(gen, "llm", ErrText)
    /\ UNCHANGED <<mode, stack, nCalls, cost, deep, unit>>

\* The stream is exhausted.
GenStreamEnd ==
    /\ InGen("stream")
    /\ gen' = [gen EXCEPT !.pc = "save"]
    /\ UNCHANGED <<mode, stack, nCalls, cost, deep, unit>>

\* Mutant: "[DONE]" is sent without the message being stored.
GenDoneUnsaved ==
    /\ InGen("save")
    /\ gen' = [gen EXCEPT !.pc = "end", !.sse = Append(@, SseDone)]
    /\ UNCHANGED <<mode, stack, nCalls, cost, deep, unit>>

\* The assistant message is stored, then "[DONE]" is sent.
GenSave ==
    /\ InGen("save")
    /\ gen' = [gen EXCEPT !.pc = "end",
                          !.saved = Append(@, [role |-> "assistant",
                                               content |-> gen.full_response]),
                          !.sse = Append(@, SseDone)]
    /\ UNCHANGED <<mode, stack, nCalls, cost, deep, unit>>

\* supabase.create_message raises.
GenSaveFails ==
    /\ InGen("save")
    /\ gen' = GenExcept(gen, "save", ErrText)
    /\ UNCHANGED <<mode, stack, nCalls, cost, deep, unit>>

----------------------------------------------------------------------------
(* Retrieval: chunks and their scores (backend/app/services/retrieval_service.py) *)

\* A score is the exact fraction num/den, den > 0, where the code has a float.
Frac(num, den) == [num |-> num, den |-> den]

Less(p, q) ==
    IF p.den = q.den THEN p.num < q.num ELSE p.num * q.den < q.num * p.den

AddFrac(p, q) ==
    IF p.den = q.den THEN Frac(p.num + q.num, p.den)
    ELSE Frac(p.num * q.den + q.num * p.den, p.den * q.den)

\* A chunk as the search backend returns it.
Chunk(id, similarity) == [id |-> id, similarity |-> similarity]

ChunkIds == {"A", "B", "C"}

\* The default of the RRF constant k.
RRF_K == 60

\* Results in one list of the search backend.
MaxList == 2

\* Mutant: alpha is used as given.
ClampAlphaNone(alpha) == alpha

\* alpha = max(0.0, min(1.0, alpha))
ClampAlpha(alpha) ==
    IF Less(Frac(1, 1), alpha) THEN Frac(1, 1)
    ELSE IF Less(alpha, Frac(0, 1)) THEN Frac(0, 1)
    ELSE alpha

RECURSIVE RankProduct(_, _)
\* (k + 1) * ... * (k + n): the scores of lists of at most n results are
\* kept over this common denominator.
RankProduct(k, n) == IF n = 0 THEN 1 ELSE (k + n) * RankProduct(k, n - 1)

\* Mutant: enumerate() without start=1.
WeightedFromZero(w, k, n, rank) ==
    Frac(w.num * (RankProduct(k, n) \div (k + rank - 1)),
         w.den * RankProduct(k, n))

\* w * (1.0 / (k + rank))
Weighted(w, k, n, rank) ==
    Frac(w.num * (RankProduct(k, n) \div (k + rank)), w.den * RankProduct(k, n))

\* row with row["similarity"] = x, whether or not it had the key.
WithSimilarity(row, x) ==
    [f \in DOMAIN row \cup {"similarity"} |->
        IF f = "similarity" THEN x ELSE row[f]]

RECURSIVE FuseList(_, _, _, _, _, _)
\* One of the two loops of reciprocal_rank_fusion, from position rank on:
\* fused is the dict, in insertion order.
FuseList(fused, results, rank, w, k, n) ==
    IF rank > Len(results) THEN fused
    ELSE LET result == results[rank]
             f1 == IF \E i \in DOMAIN fused : fused[i].id = result.id
                   THEN fused
                   ELSE Append(fused, WithSimilarity(result, Frac(0, 1)))
             i  == CHOOSE j \in DOMAIN f1 : f1[j].id = result.id
             f2 == [f1 EXCEPT ![i].similarity =
                                 AddFrac(@, Weighted(w, k, n, rank))]
         IN  FuseList(f2, results, rank + 1, w, k, n)

RECURSIVE InsertDesc(_, _)
\* c is placed behind every element whose similarity is not lower than its own.
InsertDesc(sorted, c) ==
    IF sorted = <<>> THEN <<c>>
    ELSE IF Less(Head(sorted).similarity, c.similarity) THEN <<c>> \o sorted
    ELSE <<Head(sorted)>> \o InsertDesc(Tail(sorted), c)

RECURSIVE SortFrom(_, _)
SortFrom(sorted, rest) ==
    IF rest = <<>> THEN sorted
    ELSE SortFrom(InsertDesc(sorted, Head(rest)), Tail(rest))

\* Mutant: the values of the dict are returned as they are.
SortBySimilarityNone(chunks) == chunks

\* sorted(chunks, key=similarity, reverse=True): a stable sort.
SortBySimilarity(chunks) == SortFrom(<<>>, chunks)

Longest(a, b) == IF Len(a) >= Len(b) THEN Len(a) ELSE Len(b)

reciprocal_rank_fusion(vector_results, keyword_results, alpha, k) ==
    LET a  == ClampAlpha(alpha)
        n  == Longest(vector_results, keyword_results)
        f1 == FuseList(<<>>, vector_results, 1, a, k, n)
        f2 == FuseList(f1, keyword_results, 1, Frac(a.den - a.num, a.den), k, n)
    IN  SortBySimilarity(f2)

\* The result lists a search can give: chunks with distinct ids.
Rankings ==
    UNION { { s \in [1..n -> ChunkIds] :
                \A i, j \in 1..n : i # j => s[i] # s[j] } : n \in 0..MaxList }

Found(ids) == [i \in DOMAIN ids |-> Chunk(ids[i], Frac(1, 1))]

\* The values of hybrid_alpha examined: -2, 0, 1/4, 1/2, 3/4, 1, 3/2.
Alphas == { Frac(-2, 1), Frac(0, 1), Frac(1, 4), Frac(1, 2), Frac(3, 4),
            Frac(1, 1), Frac(3, 2) }

RrfKs == {1, RRF_K}

\* One call of reciprocal_rank_fusion on its own.
UnitInit(u) ==
    /\ mode = "unit"
    /\ stack = <<>>
    /\ nCalls = 0
    /\ cost = 0
    /\ deep = 0
    /\ gen = GenOff
    /\ unit = u

RrfInit ==
    \E v \in Rankings, kw \in Rankings, alpha \in Alphas, k \in RrfKs :
        UnitInit([fn |-> "rrf", pc |-> "call",
                  vector_results |-> Found(v), keyword_results |-> Found(kw),
                  alpha |-> alpha, k |-> k, result |-> <<>>])

RrfCall ==
    /\ mode = "unit"
    /\ unit.fn = "rrf"
    /\ unit.pc = "call"
    /\ unit' = [unit EXCEPT
                  !.pc = "done",
                  !.result = reciprocal_rank_fusion(
                                 unit.vector_results, unit.keyword_results,
                                 unit.alpha, unit.k)]
    /\ UNCHANGED <<mode, stack, nCalls, cost, deep, gen>>

RrfNext == RrfCall

RrfSpec == RrfInit /\ [][RrfNext]_vars

----------------------------------------------------------------------------
(* RerankingService.rerank (backend/app/services/reranking_service.py) *)

\* The default of rerank_top_n.
RERANK_TOP_N == 5

\* Results in one response of the rerank backend.
MaxResults == 2

RerankSettings(enabled, key) ==
    [rerank_enabled |-> enabled, rerank_api_key |-> key,
     rerank_top_n |-> RERANK_TOP_N]

Min(a, b) == IF a <= b THEN a ELSE b

\* top_n or settings.rerank_top_n, None being 0 here.
TopNOr(top_n, settings) == IF top_n = 0 THEN settings.rerank_top_n ELSE top_n

\* The "top_n" of the request.
RequestedTopN(top_n, settings, chunks) ==
    Min(TopNOr(top_n, settings), Len(chunks))

\* Mutant: the index of a result is taken to count from 1.
PyIndexOneBased(n, idx) == IF idx >= 1 /\ idx <= n THEN idx ELSE 0

\* chunks[idx] on a list of n elements: the position from 1, or 0 for an
\* IndexError.  A negative idx counts from the end.
PyIndex(n, idx) ==
    IF idx >= 0 /\ idx < n THEN idx + 1
    ELSE IF idx < 0 /\ idx >= -n THEN n + idx + 1
    ELSE 0

\* chunk.copy() with rerank_score and similarity set.
Rescored(chunk, score) ==
    [f \in DOMAIN chunk \cup {"rerank_score", "similarity"} |->
        IF f \in {"rerank_score", "similarity"} THEN score ELSE chunk[f]]

RECURSIVE ReadResults(_, _, _)
\* The loop over data["results"]: it raises (KeyError, IndexError) or
\* ends with the list reranked.
ReadResults(chunks, results, reranked) ==
    IF results = <<>> THEN [raised |-> FALSE, reranked |-> reranked]
    ELSE LET result == Head(results)
             i == IF "index" \in DOMAIN result
                  THEN PyIndex(Len(chunks), result.index) ELSE 0
         IN  IF i = 0 \/ "relevance_score" \notin DOMAIN result
             THEN [raised |-> TRUE, reranked |-> reranked]
             ELSE ReadResults(chunks, Tail(results),
                      Append(reranked, Rescored(chunks[i], result.relevance_score)))

\* Mutant: no except clause around the call and the reading of its response.
RerankReadNoCatch(chunks, response) ==
    IF response.kind = "raise" THEN [raised |-> TRUE, result |-> <<>>]
    ELSE LET r == ReadResults(chunks, response.results, <<>>)
         IN  [raised |-> r.raised,
              result |-> IF r.raised THEN <<>> ELSE r.reranked]

\* The try block: the call has raised, or has returned a response to read.
RerankRead(chunks, response) ==
    IF response.kind = "raise" THEN [raised |-> FALSE, result |-> chunks]
    ELSE LET r == ReadResults(chunks, response.results, <<>>)
         IN  [raised |-> FALSE,
              result |-> IF r.raised THEN chunks ELSE r.reranked]

\* Candidates: chunks of distinct ids, the best first.
Ranked(ids) == [i \in DOMAIN ids |-> Chunk(ids[i], Frac(10 - i, 10))]

\* What the rerank backend may answer: one entry is a result with an index
\* (in range, negative or out of range) and a score, or lacks its index.
ResultEntries ==
    { [index |-> i, relevance_score |-> sc] :
        i \in -1..MaxList, sc \in {Frac(1, 2), Frac(9, 10)} }
    \cup { [relevance_score |-> Frac(1, 2)] }

RerankResponses ==
    { [kind |-> "raise"] }
    \cup { [kind |-> "ok", results |-> rs] :
             rs \in UNION { [1..n -> ResultEntries] : n \in 0..MaxResults } }

RerankInit ==
    \E ids \in Rankings, top_n \in 0..MaxList, enabled \in BOOLEAN,
       key \in {"", "key"} :
        UnitInit([fn |-> "rerank", pc |-> "call",
                  settings |-> RerankSettings(enabled, key),
                  chunks |-> Ranked(ids), top_n |-> top_n,
                  posted |-> 0,            \* requests sent to the backend
                  request_top_n |-> 0,     \* the top_n of the request
                  response |-> [kind |-> "none"],
                  result |-> <<>>])

\* rerank up to the request: the passthrough, the empty list, or the POST.
RerankCall ==
    /\ mode = "unit"
    /\ unit.fn = "rerank"
    /\ unit.pc = "call"
    /\ unit' =
         IF ~unit.settings.rerank_enabled \/ unit.settings.rerank_api_key = ""
         THEN [unit EXCEPT !.pc = "done", !.result = unit.chunks]
         ELSE IF unit.chunks = <<>>
         THEN [unit EXCEPT !.pc = "done", !.result = <<>>]
         ELSE [unit EXCEPT !.pc = "post", !.posted = @ + 1,
                           !.request_top_n =
                               RequestedTopN(unit.top_n, unit.settings, unit.chunks)]
    /\ UNCHANGED <<mode, stack, nCalls, cost, deep, gen>>

\* The backend call ends, by an exception or with a response that is read.
RerankRespond ==
    /\ mode = "unit"
    /\ unit.fn = "rerank"
    /\ unit.pc = "post"
    /\ \E response \in RerankResponses :
         LET r == RerankRead(unit.chunks, response)
         IN  unit' = [unit EXCEPT !.pc = IF r.raised THEN "raised" ELSE "done",
                                  !.response = response,
                                  !.result = r.result]
    /\ UNCHANGED <<mode, stack, nCalls, cost, deep, gen>>

RerankNext == RerankCall \/ RerankRespond

RerankSpec == RerankInit /\ [][RerankNext]_vars

----------------------------------------------------------------------------
(* RetrievalService.retrieve (backend/app/services/retrieval_service.py) *)

\* The defaults of retrieve's limit and of hybrid_candidate_limit.
DEFAULT_LIMIT == 5
HYBRID_CANDIDATE_LIMIT == 20

RetrievalSettings(search_mode, alpha, rerank) ==
    [search_mode |-> search_mode,
     hybrid_candidate_limit |-> HYBRID_CANDIDATE_LIMIT,
     hybrid_alpha |-> alpha,
     rrf_k |-> RRF_K,
     rerank_enabled |-> rerank.rerank_enabled,
     rerank_api_key |-> rerank.rerank_api_key,
     rerank_top_n |-> rerank.rerank_top_n]

\* The document store's vector search: the chunks above the threshold as
\* it ranks them, the best first, cut to the limit it is given.
SearchByVector(ids, limit) == SubSeq(Ranked(ids), 1, Min(limit, Len(ids)))

\* Its keyword search: rows with the text-search rank, the best first.
SearchByKeyword(ids, limit) ==
    SubSeq([i \in DOMAIN ids |-> [id |-> ids[i], rank |-> Frac(10 - i, 20)]],
           1, Min(limit, Len(ids)))

\* for r in keyword_results: r["similarity"] = r.get("rank", 0.0)
RankAsSimilarity(rows) ==
    [i \in DOMAIN rows |->
        WithSimilarity(rows[i], IF "rank" \in DOMAIN rows[i]
                                THEN rows[i].rank ELSE Frac(0, 1))]

\* rerank as retrieve calls it, the backend answering with response.
Rerank(settings, chunks, top_n, response) ==
    IF ~settings.rerank_enabled \/ settings.rerank_api_key = "" THEN chunks
    ELSE IF chunks = <<>> THEN <<>>
    ELSE RerankRead(chunks, response).result

\* Mutant: the final trim is left out.
TrimNone(results, limit) == results

\* results[:limit], for a limit that is not negative.
Trim(results, limit) == SubSeq(results, 1, Min(limit, Len(results)))

\* result["filename"] = doc_map.get(result["document_id"], "Unknown")
Enriched(results, found) ==
    [i \in DOMAIN results |->
        [f \in DOMAIN results[i] \cup {"filename"} |->
            IF f = "filename" THEN (IF found THEN "file" ELSE "Unknown")
            ELSE results[i][f]]]

Raised == [raised |-> TRUE, results |-> <<>>]

\* retrieve with the collaborators behaving as world says: which call
\* fails, what the two searches find, whether the document is known, and
\* what the rerank backend answers.
Retrieve(settings, limit, world) ==
    LET search_mode == settings.search_mode
        by_vector   == search_mode \in {"vector", "hybrid"}
        by_keyword  == search_mode \in {"keyword", "hybrid"}
        search_limit == IF search_mode = "hybrid"
                        THEN settings.hybrid_candidate_limit ELSE limit
        vector_results == IF by_vector
                          THEN SearchByVector(world.vector, search_limit)
                          ELSE <<>>
        keyword_results == IF by_keyword
                           THEN SearchByKeyword(world.keyword, search_limit)
                           ELSE <<>>
        combined == IF search_mode = "hybrid"
                    THEN reciprocal_rank_fusion(vector_results, keyword_results,
                             settings.hybrid_alpha, settings.rrf_k)
                    ELSE IF search_mode = "keyword"
                    THEN RankAsSimilarity(keyword_results)
                    ELSE vector_results
        reranked == IF settings.rerank_enabled
                    THEN Rerank(settings, combined, settings.rerank_top_n,
                                world.rerank)
                    ELSE combined
        results == Trim(reranked, limit)
    IN  IF by_vector /\ world.fails \in {"embed", "vector"} THEN Raised
        ELSE IF by_keyword /\ world.fails = "keyword" THEN Raised
        ELSE IF results = <<>> THEN [raised |-> FALSE, results |-> <<>>]
        ELSE IF world.fails = "document" THEN Raised
        ELSE [raised |-> FALSE, results |-> Enriched(results, world.found)]

World(fails, vector, keyword, found, rerank) ==
    [fails |-> fails, vector |-> vector, keyword |-> keyword,
     found |-> found, rerank |-> rerank]

\* The answers of the rerank backend examined with retrieve.
RetrieveRerankResponses ==
    { [kind |-> "raise"],
      [kind |-> "ok", results |-> <<>>],
      [kind |-> "ok",
       results |-> <<[index |-> 1, relevance_score |-> Frac(1, 2)],
                     [index |-> 0, relevance_score |-> Frac(9, 10)]>>] }

RetrieveInit ==
    \E search_mode \in {"vector", "keyword", "hybrid"},
       alpha \in {Frac(1, 4), Frac(1, 2)},
       enabled \in BOOLEAN,
       limit \in 0..MaxList,
       fails \in {"none", "embed", "vector", "keyword", "document"},
       vector \in Rankings, keyword \in Rankings,
       rerank \in RetrieveRerankResponses :
        /\ ~enabled => rerank.kind = "raise"
        /\ UnitInit([fn |-> "retrieve", pc |-> "call",
                     settings |-> RetrievalSettings(search_mode, alpha,
                                      RerankSettings(enabled, "key")),
                     limit |-> limit,
                     world |-> World(fails, vector, keyword, TRUE, rerank),
                     result |-> <<>>])

RetrieveCall ==
    /\ mode = "unit"
    /\ unit.fn = "retrieve"
    /\ unit.pc = "call"
    /\ LET r == Retrieve(unit.settings, unit.limit, unit.world)
       IN  unit' = [unit EXCEPT !.pc = IF r.raised THEN "raised" ELSE "done",
                                !.result = r.results]
    /\ UNCHANGED <<mode, stack, nCalls, cost, deep, gen>>

\* The collaborators as send_message and _execute_retrieve meet them.
CallerWorlds ==
    { World(fails, vector, keyword, TRUE, [kind |-> "raise"]) :
        fails \in {"none", "embed", "vector", "keyword"},
        vector \in Rankings,
        keyword \in {<<>>, <<"C", "A">>} }

CallerSettings ==
    { RetrievalSettings(search_mode, Frac(1, 2), RerankSettings(FALSE, "")) :
        search_mode \in {"vector", "hybrid"} }

\* send_message: the retrieval in its try block, then the image filter.
SendRetrieve ==
    /\ mode = "chat"
    /\ gen.pc = "retrieve"
    /\ \E settings \in CallerSettings, world \in CallerWorlds,
          image_refs \in BOOLEAN :
         LET r      == Retrieve(settings, DEFAULT_LIMIT, world)
             chunks == IF r.raised THEN <<>> ELSE r.results
         IN  /\ image_refs => chunks # <<>>
             /\ gen' = GenStart(IF r.raised THEN "failed" ELSE "ok",
                                chunks # <<>>, image_refs)
    /\ UNCHANGED <<mode, stack, nCalls, cost, deep, unit>>

----------------------------------------------------------------------------
(* _execute_retrieve: the loop over the queries and what follows it *)

\* The default of retrieval_limit.
RETRIEVAL_LIMIT == 10

\* The most queries _rewrite_query returns.
MAX_QUERIES == 3

RECURSIVE MergeChunksKeepFirst(_, _)
\* Mutant: a chunk id already in all_chunks is never replaced.
MergeChunksKeepFirst(all_chunks, chunks) ==
    IF chunks = <<>> THEN all_chunks
    ELSE LET chunk == Head(chunks)
             next  == IF \E i \in DOMAIN all_chunks : all_chunks[i].id = chunk.id
                      THEN all_chunks
                      ELSE Append(all_chunks, chunk)
         IN  MergeChunksKeepFirst(next, Tail(chunks))

RECURSIVE MergeChunks(_, _)
\* all_chunks, a dict in insertion order, after the chunks of one query:
\* of two chunks of one id the one of higher similarity is kept.
MergeChunks(all_chunks, chunks) ==
    IF chunks = <<>> THEN all_chunks
    ELSE LET chunk == Head(chunks)
             next  == IF \E i \in DOMAIN all_chunks : all_chunks[i].id = chunk.id
                      THEN [i \in DOMAIN all_chunks |->
                              IF /\ all_chunks[i].id = chunk.id
                                 /\ Less(all_chunks[i].similarity, chunk.similarity)
                              THEN chunk ELSE all_chunks[i]]
                      ELSE Append(all_chunks, chunk)
         IN  MergeChunks(next, Tail(chunks))

\* The defaults of image_similarity_min_ratio and image_max_results.
IMAGE_SIMILARITY_MIN_RATIO == Frac(6, 10)
IMAGE_MAX_RESULTS == 3

ToolSettings(retrieval_limit, image_max_results) ==
    [retrieval_limit |-> retrieval_limit,
     image_similarity_min_ratio |-> IMAGE_SIMILARITY_MIN_RATIO,
     image_max_results |-> image_max_results]

MulFrac(p, q) == Frac(p.num * q.num, p.den * q.den)

\* ctx.sources = [{"filename": ..., "similarity": ...} for c in chunks]
SourcesOf(chunks) ==
    [i \in DOMAIN chunks |->
        [filename |-> IF "filename" \in DOMAIN chunks[i]
                      THEN chunks[i].filename ELSE "Unknown",
         similarity |-> chunks[i].similarity]]

\* (chunk.get("metadata") or {}).get("chunk_type") == "image_description"
IsImageDescription(chunk) ==
    /\ "metadata" \in DOMAIN chunk
    /\ chunk.metadata.chunk_type = "image_description"

\* The entry appended to ctx.image_refs.
ImageRef(chunk, figure_num) ==
    [label |-> <<"Figure", figure_num>>,
     doc_id |-> chunk.document_id,
     index |-> chunk.metadata.image_index]

\* Mutant: the similarity of an image chunk is not compared.
BelowMinimumNever(similarity, min_image_similarity) == FALSE

\* similarity < min_image_similarity
BelowMinimum(similarity, min_image_similarity) ==
    Less(similarity, min_image_similarity)

RECURSIVE ImageLoop(_, _, _, _, _, _)
\* The loop over chunks from position i on, with its locals seen_images
\* and figure_num; the loop is left once ctx.image_refs, after an append,
\* holds image_max_results entries or more.
ImageLoop(chunks, i, min_image_similarity, seen_images, image_refs, settings) ==
    IF i > Len(chunks) THEN image_refs
    ELSE LET chunk == chunks[i]
             image == [doc_id |-> chunk.document_id,
                       index |-> chunk.metadata.image_index]
         IN  IF \/ ~IsImageDescription(chunk)
                \/ BelowMinimum(chunk.similarity, min_image_similarity)
                \/ image \in seen_images
             THEN ImageLoop(chunks, i + 1, min_image_similarity,
                            seen_images, image_refs, settings)
             ELSE LET refs == Append(image_refs,
                                     ImageRef(chunk, Cardinality(seen_images) + 1))
                  IN  IF Len(refs) >= settings.image_max_results THEN refs
                      ELSE ImageLoop(chunks, i + 1, min_image_similarity,
                                     seen_images \cup {image}, refs, settings)

\* ctx.image_refs after the image chunks of chunks, which is not empty,
\* have been examined.
CollectImages(chunks, image_refs, settings) ==
    LET top_similarity == chunks[1].similarity
        min_image_similarity ==
            MulFrac(top_similarity, settings.image_similarity_min_ratio)
    IN  ImageLoop(chunks, 1, min_image_similarity, {}, image_refs, settings)

\* What follows the loop over the queries: sort, limit, sources, image
\* references and the result text, on the context ctx.
AfterQueries(ctx, settings, all_chunks) ==
    LET chunks == Trim(SortBySimilarity(all_chunks), settings.retrieval_limit)
    IN  IF chunks = <<>>
        THEN [sources |-> ctx.sources, image_refs |-> ctx.image_refs,
              chunks |-> chunks, result |-> NO_DOCUMENTS]
        ELSE LET image_refs == CollectImages(chunks, ctx.image_refs, settings)
             IN  [sources |-> SourcesOf(chunks), image_refs |-> image_refs,
                  chunks |-> chunks,
                  result |-> IF image_refs # <<>>
                             THEN <<"context", "figures">> ELSE <<"context">>]

\* Mutant: the exception of retrieve leaves the executor.
AfterQueryFailsRaise(u) == [u EXCEPT !.pc = "raised"]

\* except Exception: the query is skipped.
AfterQueryFails(u) == [u EXCEPT !.searched = @ + 1, !.skipped = @ + 1]

ExecRetrieveInit ==
    \E n \in 1..MAX_QUERIES, settings \in CallerSettings :
        UnitInit([fn |-> "execute_retrieve", pc |-> "loop",
                  settings |-> settings,
                  queries |-> [i \in 1..n |-> "q" \o ToString(i)],
                  searched |-> 0,       \* queries given to retrieve
                  skipped |-> 0,        \* of which retrieve raised
                  all_chunks |-> <<>>,
                  sources |-> <<>>,
                  image_refs |-> <<>>,
                  result |-> <<>>])

\* One iteration: retrieve is called for the next query.
ExecRetrieveQuery ==
    /\ mode = "unit"
    /\ unit.fn = "execute_retrieve"
    /\ unit.pc = "loop"
    /\ unit.searched < Len(unit.queries)
    /\ \E world \in CallerWorlds :
         LET r == Retrieve(unit.settings, DEFAULT_LIMIT, world)
         IN  unit' = IF r.raised THEN AfterQueryFails(unit)
                     ELSE [unit EXCEPT
                             !.searched = @ + 1,
                             !.all_chunks = MergeChunks(@, r.results)]
    /\ UNCHANGED <<mode, stack, nCalls, cost, deep, gen>>

\* After the loop: sort, limit, and the result text.
ExecRetrieveFinish ==
    /\ mode = "unit"
    /\ unit.fn = "execute_retrieve"
    /\ unit.pc = "loop"
    /\ unit.searched = Len(unit.queries)
    /\ LET r == AfterQueries(unit,
                             ToolSettings(RETRIEVAL_LIMIT, IMAGE_MAX_RESULTS),
                             unit.all_chunks)
       IN  unit' = [unit EXCEPT !.pc = "done",
                                !.sources = r.sources,
                                !.image_refs = r.image_refs,
                                !.result = r.result]
    /\ UNCHANGED <<mode, stack, nCalls, cost, deep, gen>>

\* Calls of retrieve_documents on one context.
MaxRetrieveCalls == 2

\* Chunks in the result of retrieve for one query.
MaxHits == 2

\* A chunk as retrieve returns it, of document "d1".
Hit(id, similarity, chunk_type, image_index) ==
    [id |-> id, similarity |-> similarity, document_id |-> "d1",
     filename |-> "file",
     metadata |-> [chunk_type |-> chunk_type, image_index |-> image_index]]

\* The chunks examined: a text chunk as two queries score it, two chunks
\* that describe image 0, and one that describes image 1.
Hits ==
    { Hit("A", Frac(9, 10), "text", 0),
      Hit("A", Frac(5, 10), "text", 0),
      Hit("B", Frac(6, 10), "image_description", 0),
      Hit("C", Frac(5, 10), "image_description", 0),
      Hit("D", Frac(6, 10), "image_description", 1) }

\* What retrieve returns for one query: chunks of distinct ids, the most
\* similar first.
HitLists ==
    UNION { { s \in [1..n -> Hits] :
                /\ \A i, j \in 1..n : i # j => s[i].id # s[j].id
                /\ \A i \in 1..(n - 1) :
                      ~Less(s[i].similarity, s[i + 1].similarity) } :
            n \in 0..MaxHits }

QueryOutcomes ==
    { Raised } \cup { [raised |-> FALSE, results |-> s] : s \in HitLists }

\* One query (rewriting is off, or it fell back) or two, the second of
\* which finds at most one chunk.
Retrievals ==
    { <<o>> : o \in QueryOutcomes }
    \cup { <<o, p>> : o \in QueryOutcomes,
                      p \in { q \in QueryOutcomes : Len(q.results) <= 1 } }

RECURSIVE MergeAll(_, _)
\* The loop over the queries, retrieved[i] being what retrieve did for
\* query i.
MergeAll(all_chunks, retrieved) ==
    IF retrieved = <<>> THEN all_chunks
    ELSE MergeAll(IF Head(retrieved).raised THEN all_chunks
                  ELSE MergeChunks(all_chunks, Head(retrieved).results),
                  Tail(retrieved))

ToolInit ==
    \E limits \in { <<RETRIEVAL_LIMIT, IMAGE_MAX_RESULTS>>, <<2, 2>>, <<1, 1>> } :
        UnitInit([fn |-> "retrieve_documents", pc |-> "idle",
                  settings |-> ToolSettings(limits[1], limits[2]),
                  sources |-> <<>>,
                  image_refs |-> <<>>,
                  calls |-> 0,
                  retrieved |-> <<>>,   \* what retrieve did in the last call
                  before |-> <<>>,      \* ctx.image_refs when it started
                  chunks |-> <<>>,
                  result |-> <<>>])

\* One call of _execute_retrieve, from the queries on, on the context of
\* the loop invocation.
ToolRetrieve ==
    /\ mode = "unit"
    /\ unit.fn = "retrieve_documents"
    /\ unit.calls < MaxRetrieveCalls
    /\ \E retrieved \in Retrievals :
         LET r == AfterQueries(unit, unit.settings, MergeAll(<<>>, retrieved))
         IN  unit' = [unit EXCEPT !.pc = "done",
                                  !.calls = @ + 1,
                                  !.retrieved = retrieved,
                                  !.before = unit.image_refs,
                                  !.sources = r.sources,
                                  !.image_refs = r.image_refs,
                                  !.chunks = r.chunks,
                                  !.result = r.result]
    /\ UNCHANGED <<mode, stack, nCalls, cost, deep, gen>>

ToolNext == ToolRetrieve

ToolSpec == ToolInit /\ [][ToolNext]_vars

----------------------------------------------------------------------------
(* _rewrite_query (backend/app/services/agent_service.py) *)

\* The messages of the conversation that are rendered.
RECENT_MESSAGES == 6

\* Messages in chat_messages, and lines in one response of the model.
MaxMessages == 7
MaxLines == 4

\* A message by its content: a str, a list of parts whose first is a dict,
\* or None (m['content'][0] raises).
Message(content) == [role |-> "user", content |-> content]

\* chat_messages[-6:] if len(chat_messages) > 6 else chat_messages
Recent(chat_messages) ==
    IF Len(chat_messages) > RECENT_MESSAGES
    THEN SubSeq(chat_messages, Len(chat_messages) - RECENT_MESSAGES + 1,
                Len(chat_messages))
    ELSE chat_messages

\* The f-string of one message can be evaluated.
Renders(m) == m.content \in {"str", "parts"}

\* The lines a response is made of: empty, blank, a query, a padded query.
ResponseLines == {"", " ", "a", " b "}

\* q.strip()
Strip(q) == CASE q = " " -> "" [] q = " b " -> "b" [] OTHER -> q

RECURSIVE StrippedNonBlank(_)
\* [q.strip() for q in lines if q.strip()]
StrippedNonBlank(lines) ==
    IF lines = <<>> THEN <<>>
    ELSE (IF Strip(Head(lines)) # "" THEN <<Strip(Head(lines))>> ELSE <<>>)
         \o StrippedNonBlank(Tail(lines))

\* _rewrite_query, the model answering as llm says: the conversation is
\* rendered first, then the try block is entered.
RewriteQuery(query, chat_messages, llm) ==
    LET recent == Recent(chat_messages)
    IN  IF \E i \in DOMAIN recent : ~Renders(recent[i])
        THEN [raised |-> TRUE, queries |-> <<>>]
        ELSE IF llm.kind = "raise"
        THEN [raised |-> FALSE, queries |-> <<query>>]
        ELSE LET queries == StrippedNonBlank(llm.lines)
             IN  [raised |-> FALSE,
                  queries |-> IF queries # <<>>
                              THEN SubSeq(queries, 1, Min(MAX_QUERIES, Len(queries)))
                              ELSE <<query>>]

\* Conversations of n messages with str content, but for at most one.
Conversations ==
    UNION { { [i \in 1..n |-> Message(IF i = at THEN content ELSE "str")] :
                at \in 0..n, content \in {"parts", "None"} } : n \in 0..MaxMessages }

LlmResponses ==
    { [kind |-> "raise"] }
    \cup { [kind |-> "ok", lines |-> ls] :
             ls \in UNION { [1..n -> ResponseLines] : n \in 0..MaxLines } }

RewriteInit ==
    \E chat_messages \in Conversations, llm \in LlmResponses :
        UnitInit([fn |-> "rewrite", pc |-> "call",
                  query |-> "original",
                  chat_messages |-> chat_messages,
                  llm |-> llm,
                  result |-> <<>>])

RewriteCall ==
    /\ mode = "unit"
    /\ unit.fn = "rewrite"
    /\ unit.pc = "call"
    /\ LET r == RewriteQuery(unit.query, unit.chat_messages, unit.llm)
       IN  unit' = [unit EXCEPT !.pc = IF r.raised THEN "raised" ELSE "done",
                                !.result = r.queries]
    /\ UNCHANGED <<mode, stack, nCalls, cost, deep, gen>>

RewriteNext == RewriteCall

RewriteSpec == RewriteInit /\ [][RewriteNext]_vars

----------------------------------------------------------------------------
(* _recursive_split (backend/app/services/chunking_service.py) *)
(* A str is the sequence of its characters.                    *)

\* Separators ordered by preference: paragraphs, lines, sentences, words, chars.
SEPARATORS == << <<"\n", "\n">>, <<"\n">>, <<".", " ">>, <<" ">>, <<>> >>

\* Characters of a text.
MaxText == 4

\* The characters str.strip() removes.
Whitespace == {" ", "\n", "\t"}

\* sep in text
Contains(text, sep) ==
    \E i \in 1..(Len(text) - Len(sep) + 1) :
        SubSeq(text, i, i + Len(sep) - 1) = sep

\* sep begins at position j of text.
OccursAt(text, sep, j) == SubSeq(text, j, j + Len(sep) - 1) = sep

\* The places from start on where sep begins in text.
Occurrences(text, sep, start) ==
    { j \in start..(Len(text) - Len(sep) + 1) : OccursAt(text, sep, j) }

RECURSIVE SplitFrom(_, _, _)
\* The pieces of text from position start on that sep separates, its
\* occurrences taken from the left.
SplitFrom(text, sep, start) ==
    IF Occurrences(text, sep, start) = {} THEN <<SubSeq(text, start, Len(text))>>
    ELSE CHOOSE pieces \in
             { <<SubSeq(text, start, i - 1)>> \o SplitFrom(text, sep, i + Len(sep)) :
                 i \in { CHOOSE j \in start..(Len(text) - Len(sep) + 1) :
                             /\ OccursAt(text, sep, j)
                             /\ \A h \in start..(j - 1) :
                                   ~OccursAt(text, sep, h) } } :
             TRUE

\* text.split(sep), sep not empty
SplitOn(text, sep) == SplitFrom(text, sep, 1)

\* s.rstrip(chars): the trailing characters that are in chars are removed.
RStrip(s, chars) ==
    SubSeq(s, 1, CHOOSE n \in 0..Len(s) :
                    /\ n > 0 => s[n] \notin chars
                    /\ \A k \in (n + 1)..Len(s) : s[k] \in chars)

\* s.lstrip(chars)
LStrip(s, chars) ==
    SubSeq(s, CHOOSE n \in 1..(Len(s) + 1) :
                  /\ n <= Len(s) => s[n] \notin chars
                  /\ \A k \in 1..(n - 1) : s[k] \in chars,
           Len(s))

\* Mutant: the text is returned as it is.
StripNone(s) == s

\* s.strip()
StripText(s) ==
    CHOOSE stripped \in
        { LStrip(t, Whitespace) : t \in { RStrip(s, Whitespace) } } : TRUE

CharsOf(separator) == { separator[i] : i \in DOMAIN separator }

\* current.rstrip(separator).strip()
ChunkOf(current, separator) ==
    CHOOSE chunk \in
        { StripText(t) : t \in { RStrip(current, CharsOf(separator)) } } : TRUE

\* Mutant: the whole buffer is kept.
SeedAll(current, chunk_overlap) == current

\* Mutant: the new buffer always starts empty.
SeedNone(current, chunk_overlap) == <<>>

\* current[-chunk_overlap:] if chunk_overlap > 0 and len(current) >
\* chunk_overlap, else ""
Seed(current, chunk_overlap) ==
    IF chunk_overlap > 0 /\ Len(current) > chunk_overlap
    THEN SubSeq(current, Len(current) - chunk_overlap + 1, Len(current))
    ELSE <<>>

\* A buffer that is emitted: the seed it started with and its chunk.
Emitted(current, seed, separator) ==
    [buffer |-> current, seed |-> seed, chunk |-> ChunkOf(current, separator)]

\* One iteration of the loop that merges the splits; loop holds the locals
\* current and chunks, with the seed the buffer current started with.
MergeSplit(loop, split, separator, chunk_size, chunk_overlap) ==
    LET piece == split \o separator
        test  == loop.current \o piece
    IN  IF Len(test) > chunk_size /\ loop.current # <<>>
        THEN LET kept == Seed(loop.current, chunk_overlap)
             IN  [current |-> kept \o piece,
                  seed    |-> kept,
                  emitted |-> Append(loop.emitted,
                                     Emitted(loop.current, loop.seed, separator))]
        ELSE [loop EXCEPT !.current = test]

RECURSIVE MergeSplits(_, _, _, _, _, _)
\* The loop from split number i on, and the emission of the last buffer.
\* The locals are handed from one iteration to the next as a value.
MergeSplits(splits, i, loop, separator, chunk_size, chunk_overlap) ==
    IF i > Len(splits)
    THEN IF loop.current # <<>>
         THEN Append(loop.emitted, Emitted(loop.current, loop.seed, separator))
         ELSE loop.emitted
    ELSE CHOOSE emitted \in
             { MergeSplits(splits, i + 1, next, separator, chunk_size, chunk_overlap) :
                 next \in { MergeSplit(loop, splits[i], separator,
                                       chunk_size, chunk_overlap) } } : TRUE

\* The index in SEPARATORS of the first separator from position from on
\* that text contains; the last one, "", is in every text.
BestSeparator(text, from) ==
    CHOOSE k \in from..Len(SEPARATORS) :
        /\ Contains(text, SEPARATORS[k])
        /\ \A h \in from..(k - 1) : ~Contains(text, SEPARATORS[h])

\* list(text), or text.split(separator)
SplitsOf(text, separator) ==
    IF separator = <<>> THEN [i \in DOMAIN text |-> <<text[i]>>]
    ELSE SplitOn(text, separator)

\* The buffers one invocation emits for a text longer than chunk_size.
BuffersOf(text, from, chunk_size, chunk_overlap) ==
    LET separator == SEPARATORS[BestSeparator(text, from)]
    IN  CHOOSE emitted \in
            { MergeSplits(splits, 1,
                          [current |-> <<>>, seed |-> <<>>, emitted |-> <<>>],
                          SEPARATORS[k], chunk_size, chunk_overlap) :
                splits \in { SplitsOf(text, separator) },
                k \in { BestSeparator(text, from) } } : TRUE

\* An entry of the result under construction: a chunk that is final, or
\* one that a recursive invocation with the separators from position from
\* on has still to split.
Final(chunk) == [text |-> chunk, from |-> 0, final |-> TRUE]
ToSplit(chunk, from) == [text |-> chunk, from |-> from, final |-> FALSE]

HasChunk(e) == e.chunk # <<>>

\* if chunk: chunks.append(chunk)
NonEmptyChunks(emitted) ==
    [i \in DOMAIN SelectSeq(emitted, HasChunk) |->
        SelectSeq(emitted, HasChunk)[i].chunk]

\* The chunks of an invocation that chose separator number k, those still
\* too large left to the invocations it makes.
Resplit(chunks, k, chunk_size) ==
    CHOOSE items \in
        { [i \in DOMAIN cs |->
              IF n < Len(SEPARATORS) /\ Len(cs[i]) > chunk_size
              THEN ToSplit(cs[i], n + 1)
              ELSE Final(cs[i])] : cs \in {chunks}, n \in {k} } : TRUE

\* What one invocation on text with the separators from position from on
\* puts in place of text, and the buffers it emitted.
Invocation(text, from, chunk_size, chunk_overlap) ==
    IF Len(text) <= chunk_size
    THEN CHOOSE r \in
             { [items |-> IF stripped # <<>> THEN <<Final(stripped)>> ELSE <<>>,
                emitted |-> <<>>] : stripped \in { StripText(text) } } : TRUE
    ELSE CHOOSE r \in
             { [items |-> Resplit(NonEmptyChunks(emitted),
                                  BestSeparator(text, from), chunk_size),
                emitted |-> emitted] :
                 emitted \in { BuffersOf(text, from, chunk_size, chunk_overlap) } } :
             TRUE

Characters == {"a", " ", "\n", "."}

Texts == UNION { [1..n -> Characters] : n \in 0..MaxText }

\* The example of a text without separators: 25 characters, all different,
\* or with a tab in one place.
ExampleTexts ==
    { [i \in 1..25 |-> IF i = tab THEN "\t" ELSE "c" \o ToString(i)] :
        tab \in 0..25 }

ChunkUnit(text, chunk_size, chunk_overlap) ==
    [fn |-> "chunk", pc |-> "run", text |-> text,
     chunk_size |-> chunk_size, chunk_overlap |-> chunk_overlap,
     calls |-> 0,
     items |-> <<ToSplit(text, 1)>>,
     emitted |-> <<>>]   \* the buffers of the last invocation

\* The calls examined: short texts with small sizes and overlaps, and the
\* example with chunk_size 10 and chunk_overlap 3.
ShortCalls ==
    { ChunkUnit(text, chunk_size, chunk_overlap) :
        text \in Texts, chunk_size \in 1..3, chunk_overlap \in 0..3 }

ChunkCalls == ShortCalls \cup { ChunkUnit(text, 10, 3) : text \in ExampleTexts }

ChunkInit == \E u \in ChunkCalls : UnitInit(u)

\* The next invocation of _recursive_split: the first one, or the one for
\* the first chunk that is still too large.
ChunkInvoke ==
    /\ mode = "unit"
    /\ unit.fn = "chunk"
    /\ unit.pc = "run"
    /\ \E i \in DOMAIN unit.items :
         /\ ~unit.items[i].final
         /\ \A h \in 1..(i - 1) : unit.items[h].final
         /\ \E r \in { Invocation(unit.items[i].text, unit.items[i].from,
                                   unit.chunk_size, unit.chunk_overlap) } :
              unit' = [unit EXCEPT
                  !.calls = @ + 1,
                  !.items = SubSeq(@, 1, i - 1) \o r.items
                            \o SubSeq(@, i + 1, Len(@)),
                  !.emitted = r.emitted]
    /\ UNCHANGED <<mode, stack, nCalls, cost, deep, gen>>

ChunkNext == ChunkInvoke

ChunkSpec == ChunkInit /\ [][ChunkNext]_vars

\* The runs on the short texts, every invocation that can be made being made.
ChunkLiveInit == \E u \in ShortCalls : UnitInit(u)

ChunkLiveSpec == ChunkLiveInit /\ [][ChunkNext]_vars /\ WF_vars(ChunkNext)

----------------------------------------------------------------------------
(* SQLService (backend/app/services/sql_service.py) *)
(* A query is a sequence of words and of the characters between them. *)

FORBIDDEN_KEYWORDS ==
    {"INSERT", "UPDATE", "DELETE", "DROP", "ALTER", "CREATE", "TRUNCATE",
     "GRANT", "REVOKE"}

\* Words and characters in a generated query.
MaxSql == 4

SqlWords == {"select", "drop", "x"}

\* The characters that can stand between two words, and a code fence.
SqlDelimiters == {" ", "\n", "\t", ";", "("}
\* Three backquotes, which open and close a fenced block.
FENCE == "fence"

\* str.upper() of one word or character.
Upper(t) ==
    CASE t = "select" -> "SELECT"
      [] t = "drop"   -> "DROP"
      [] t = "x"      -> "X"
      [] OTHER        -> t

UpperText(query) == [i \in DOMAIN query |-> Upper(query[i])]

\* lines = sql.split("\n"); lines = [l for l in lines if not
\* l.startswith(FENCE)]; sql = "\n".join(lines).strip()
StartsWithFence(line) == line # <<>> /\ line[1] = FENCE

RECURSIVE JoinLines(_)
JoinLines(lines) ==
    IF lines = <<>> THEN <<>>
    ELSE IF Len(lines) = 1 THEN lines[1]
    ELSE lines[1] \o <<"\n">> \o JoinLines(Tail(lines))

NotFence(line) == ~StartsWithFence(line)

\* The clean-up of the generated text.
CleanSql(generated) ==
    IF StartsWithFence(StripText(generated))
    THEN StripText(JoinLines(SelectSeq(SplitOn(StripText(generated), <<"\n">>),
                                       NotFence)))
    ELSE StripText(generated)

\* f" {kw} " in f" {upper} "
HasKeyword(upper, kw) ==
    Contains(<<" ">> \o upper \o <<" ">>, <<" ", kw, " ">>)

\* _validate_query: the error message, or "None".
ValidateQuery(query) ==
    LET stripped == StripText(RStrip(StripText(query), {";"}))
        upper    == UpperText(stripped)
    IN  IF ~(upper # <<>> /\ upper[1] = "SELECT")
        THEN "Only SELECT queries are allowed."
        ELSE IF \E kw \in FORBIDDEN_KEYWORDS : HasKeyword(upper, kw)
        THEN "Forbidden keyword"
        ELSE "None"

\* No text sent to the query-execution backend.
NotSent == [sent |-> FALSE, query_text |-> <<>>]

\* execute, the model answering with llm and the backend as backend says.
SqlExecute(llm, backend) ==
    IF llm.kind = "raise"
    THEN [result |-> <<"Failed to generate SQL query: ">>, rpc |-> NotSent]
    ELSE LET sql   == CleanSql(llm.text)
             error == ValidateQuery(sql)
             rpc   == [sent |-> TRUE, query_text |-> sql]
         IN  IF error # "None"
             THEN [result |-> <<"Generated query was rejected: ", error>>,
                   rpc |-> NotSent]
             ELSE IF backend \in {"status_error", "error"}
             THEN [result |-> <<"SQL execution failed: ">>, rpc |-> rpc]
             ELSE IF backend = "no_rows"
             THEN [result |-> <<"Query: ", "No results found.">>, rpc |-> rpc]
             ELSE [result |-> <<"Query: ", "Results">>, rpc |-> rpc]

SqlTokens == SqlWords \cup SqlDelimiters \cup {FENCE}

\* The texts a model can generate: no two words without a character between.
GeneratedTexts ==
    UNION { { t \in [1..n -> SqlTokens] :
                \A i \in 1..(n - 1) :
                    ~(t[i] \in SqlWords /\ t[i + 1] \in SqlWords) } :
            n \in 0..MaxSql }

SqlInit ==
    \E llm \in { [kind |-> "raise"] }
               \cup { [kind |-> "ok", text |-> t] : t \in GeneratedTexts },
       backend \in {"status_error", "error", "no_rows", "rows"} :
        UnitInit([fn |-> "sql", pc |-> "call", llm |-> llm, backend |-> backend,
                  sql |-> <<>>,       \* the query after the clean-up
                  rpc |-> NotSent, result |-> <<>>])

SqlCall ==
    /\ mode = "unit"
    /\ unit.fn = "sql"
    /\ unit.pc = "call"
    /\ LET r == SqlExecute(unit.llm, unit.backend)
       IN  unit' = [unit EXCEPT
                     !.pc = "done",
                     !.sql = IF unit.llm.kind = "ok"
                             THEN CleanSql(unit.llm.text) ELSE <<>>,
                     !.rpc = r.rpc,
                     !.result = r.result]
    /\ UNCHANGED <<mode, stack, nCalls, cost, deep, gen>>

SqlNext == SqlCall

SqlSpec == SqlInit /\ [][SqlNext]_vars

----------------------------------------------------------------------------
(* Tool definitions (backend/app/tools/definitions.py) *)
(* A tool schema is identified by the name of its function. *)

RETRIEVE_DOCUMENTS == "retrieve_documents"
TEXT_TO_SQL == "text_to_sql"
ANALYZE_DOCUMENT == "analyze_document"
WEB_SEARCH == "web_search"

\* Calls of get_enabled_tools in one run.
MaxToolLists == 4

\* The values of settings.tavily_api_key: not configured, or one of two keys.
TavilyKeys == {"", "tvly-1", "tvly-2"}

\* Mutant: web_search is offered whatever the settings say.
GetEnabledToolsAlways(settings) ==
    <<RETRIEVE_DOCUMENTS, TEXT_TO_SQL, ANALYZE_DOCUMENT, WEB_SEARCH>>

\* get_enabled_tools: a list built anew by each call.
GetEnabledTools(settings) ==
    LET tools == <<RETRIEVE_DOCUMENTS, TEXT_TO_SQL, ANALYZE_DOCUMENT>>
    IN  IF settings.tavily_api_key # ""
        THEN Append(tools, WEB_SEARCH)
        ELSE tools

\* No call made yet; lists holds the settings and the result of each call.
EnabledInit == UnitInit([fn |-> "get_enabled_tools", lists |-> <<>>])

EnabledCall ==
    /\ mode = "unit"
    /\ unit.fn = "get_enabled_tools"
    /\ Len(unit.lists) < MaxToolLists
    /\ \E key \in TavilyKeys :
        LET settings == [tavily_api_key |-> key]
        IN  unit' = [unit EXCEPT
                      !.lists = Append(@, [settings |-> settings,
                                           tools |-> GetEnabledTools(settings)])]
    /\ UNCHANGED <<mode, stack, nCalls, cost, deep, gen>>

EnabledNext == EnabledCall

EnabledSpec == EnabledInit /\ [][EnabledNext]_vars

----------------------------------------------------------------------------
(* WebSearchService (backend/app/services/web_search_service.py) and the   *)
(* web_search tool call of run_agent_loop                                   *)

NOT_CONFIGURED ==
    "Web search is not configured. Please add a Tavily API key in Settings."

\* web_search tool calls in one run of the loop.
MaxSearches == 2

\* tool_call.function.arguments: a JSON object with a query, an empty JSON
\* object, or a text that is not JSON.
ArgumentTexts == {"{\"query\": \"q\"}", "{}", "{"}

\* json.loads(tool_call.function.arguments), {} on a JSONDecodeError.
ParseArguments(text) ==
    IF text = "{\"query\": \"q\"}" THEN [query |-> "q"] ELSE <<>>

\* What the search backend does with a request: an error status, a failure
\* of the connection, a body that is not the expected object, an empty list of
\* results, or results.
SearchOutcomes == {"status_error", "error", "malformed", "no_results", "results"}

\* The request to the search backend and what search makes of its answer.
Post(settings, query, backend) ==
    LET post == <<[api_key |-> settings.tavily_api_key, query |-> query]>>
    IN  CASE backend \in {"status_error", "error"} ->
               [raised |-> FALSE, result |-> <<"Web search failed: ">>,
                posts |-> post]
          [] backend = "malformed" ->
               [raised |-> TRUE, result |-> <<>>, posts |-> post]
          [] backend = "no_results" ->
               [raised |-> FALSE, result |-> <<"No web results found.">>,
                posts |-> post]
          [] OTHER ->
               [raised |-> FALSE, result |-> <<"web results">>, posts |-> post]

\* Mutant: the request is made whether or not a key is configured.
SearchWithoutKeyTest(settings, query, backend) ==
    Post(settings, query, backend)

\* WebSearchService.search: posts are the requests made to the backend.
Search(settings, query, backend) ==
    IF settings.tavily_api_key = ""
    THEN [raised |-> FALSE, result |-> <<NOT_CONFIGURED>>, posts |-> <<>>]
    ELSE Post(settings, query, backend)

\* _execute_web_search
ExecuteWebSearch(arguments, settings, backend) ==
    Search(settings,
           IF "query" \in DOMAIN arguments THEN arguments.query ELSE "",
           backend)

\* run_agent_loop on one web_search tool call: the events it yields, the
\* message it appends, the requests made, and whether an exception leaves it.
WebSearchCall(f, tool_call, settings, backend) ==
    LET fn_args == ParseArguments(tool_call.arguments)
        r       == ExecuteWebSearch(fn_args, settings, backend)
        result  == IF r.raised THEN Failed(ErrText) ELSE r.result
    IN  [events  |-> <<ToolCallEvent("web_search", fn_args)>>
                     \o ResultEvents(f, "web_search", result),
         message |-> ToolMessage(tool_call.id, result),
         posts   |-> r.posts,
         raises  |-> FALSE]

WebInit ==
    \E key \in TavilyKeys :
        UnitInit([fn |-> "web_search",
                  settings |-> [tavily_api_key |-> key],
                  sources |-> <<>>, image_refs |-> <<>>,
                  calls |-> <<>>,       \* the tool calls executed so far
                  out |-> <<>>, messages |-> <<>>, posts |-> <<>>,
                  raised |-> FALSE])

WebCall ==
    /\ mode = "unit"
    /\ unit.fn = "web_search"
    /\ ~unit.raised
    /\ Len(unit.calls) < MaxSearches
    /\ \E text \in ArgumentTexts, backend \in SearchOutcomes :
        LET tool_call == [id |-> Len(unit.calls) + 1, arguments |-> text]
            r == WebSearchCall(unit, tool_call, unit.settings, backend)
        IN  unit' = [unit EXCEPT
                      !.calls = Append(@, [tool_call |-> tool_call,
                                           backend |-> backend,
                                           events |-> r.events,
                                           posts |-> r.posts]),
                      !.out = @ \o r.events,
                      !.messages = Append(@, r.message),
                      !.posts = @ \o r.posts,
                      !.raised = r.raises]
    /\ UNCHANGED <<mode, stack, nCalls, cost, deep, gen>>

WebNext == WebCall

WebSpec == WebInit /\ [][WebNext]_vars

----------------------------------------------------------------------------
(* send_message: the filter of the discovered document images              *)
(* (backend/app/api/routes/chat.py)                                         *)

\* Images discovered in the documents of the retrieved chunks.
MaxFound == 3
\* Words and numbers in the reply of the filtering call.
MaxReply == 3

\* The words of a reply: runs of digits, and words without a digit.
DigitRuns == {"0", "1", "2", "7"}
ReplyWords == {"none", "None", "x"} \cup DigitRuns

\* int(x) of a run of digits.
ToInt(x) ==
    CASE x = "0" -> 0
      [] x = "1" -> 1
      [] x = "2" -> 2
      [] OTHER   -> 7

\* filter_response.strip().lower(): the words in lower case.
LowerWords(reply) ==
    [i \in DOMAIN reply |-> IF reply[i] = "None" THEN "none" ELSE reply[i]]

IsDigitRun(x) == x \in DigitRuns

\* [int(x) for x in re.findall(r"\d+", filter_text)]
SelectedNumbers(filter_text) ==
    LET runs == SelectSeq(filter_text, IsDigitRun)
    IN  [i \in DOMAIN runs |-> ToInt(runs[i])]

\* [all_image_refs[i] for i in selected if i < len(all_image_refs)]
RECURSIVE PickImages(_, _)
PickImages(all_image_refs, selected) ==
    IF selected = <<>> THEN <<>>
    ELSE LET i == Head(selected)
         IN  (IF i < Len(all_image_refs)
              THEN <<all_image_refs[i + 1]>> ELSE <<>>)
             \o PickImages(all_image_refs, Tail(selected))

\* The image_refs of send_message after the filter; llm is what the
\* filtering call did.  asked says whether the call was made.
FilterImages(all_image_refs, llm) ==
    IF all_image_refs = <<>>
    THEN [image_refs |-> <<>>, asked |-> FALSE]
    ELSE IF llm.kind = "raise"
    THEN [image_refs |-> all_image_refs, asked |-> TRUE]
    ELSE LET filter_text == LowerWords(llm.reply)
         IN  IF filter_text # <<"none">>
             THEN [image_refs |-> PickImages(all_image_refs,
                                             SelectedNumbers(filter_text)),
                   asked |-> TRUE]
             ELSE [image_refs |-> <<>>, asked |-> TRUE]

\* The discovered images: image k is the k-th of the list.
Discovered == { [k \in 1..n |-> [doc_id |-> "A", index |-> k - 1]] :
                n \in 0..MaxFound }

FilterReplies ==
    { [kind |-> "raise"] }
    \cup { [kind |-> "ok", reply |-> r] :
           r \in UNION { [1..n -> ReplyWords] : n \in 0..MaxReply } }

FilterInit ==
    \E all_image_refs \in Discovered, llm \in FilterReplies :
        UnitInit([fn |-> "filter_images", pc |-> "call",
                  all_image_refs |-> all_image_refs, llm |-> llm,
                  image_refs |-> <<>>, asked |-> FALSE])

FilterCall ==
    /\ mode = "unit"
    /\ unit.fn = "filter_images"
    /\ unit.pc = "call"
    /\ LET r == FilterImages(unit.all_image_refs, unit.llm)
       IN  unit' = [unit EXCEPT !.pc = "done",
                                !.image_refs = r.image_refs,
                                !.asked = r.asked]
    /\ UNCHANGED <<mode, stack, nCalls, cost, deep, gen>>

FilterNext == FilterCall

FilterSpec == FilterInit /\ [][FilterNext]_vars

----------------------------------------------------------------------------
(* upload_document (backend/app/api/routes/documents.py) *)
(* Several requests run on one event loop; each await is a point where      *)
(* another request can run.                                                 *)

\* Upload requests in one run.
MaxUploads == 2

UploadUsers == {"u1", "u2"}
\* compute_content_hash of the uploaded content.
ContentHashes == {"h1", "h2"}

\* The documents table holds no constraint on (user_id, content_hash):
\* create_document inserts a row whatever the table holds.
CreateDocument(documents, user_id, content_hash) ==
    Append(documents, [id |-> Len(documents) + 1, user_id |-> user_id,
                       content_hash |-> content_hash, status |-> "pending"])

\* get_document_by_hash: the first row of the user with the hash, or a
\* record with id 0 for None.
GetDocumentByHash(documents, user_id, content_hash) ==
    LET found == SelectSeq(documents,
                           LAMBDA doc : /\ doc.user_id = user_id
                                        /\ doc.content_hash = content_hash)
    IN  IF found # <<>> THEN found[1] ELSE [id |-> 0]

UploadRequest(user, content_hash, file) ==
    [pc |-> "check", user |-> user, content_hash |-> content_hash,
     file |-> file,                 \* "ok", or why the file is refused
     returned |-> 0,                \* the id of the document returned
     duplicate |-> FALSE]           \* the X-Duplicate header

UploadInit ==
    \E reqs \in [1..MaxUploads ->
                   { UploadRequest(user, h, file) :
                       user \in UploadUsers, h \in ContentHashes,
                       file \in {"ok", "refused"} }] :
        UnitInit([fn |-> "upload_document", reqs |-> reqs,
                  documents |-> <<>>,   \* the rows of the documents table
                  objects |-> <<>>,     \* the objects written to storage
                  tasks |-> <<>>])      \* the ingestion tasks added

Uploading(r, pc) ==
    /\ mode = "unit"
    /\ unit.fn = "upload_document"
    /\ r \in DOMAIN unit.reqs
    /\ unit.reqs[r].pc = pc

\* The checks of type and size, then the lookup by hash.
UploadCheck(r) ==
    /\ Uploading(r, "check")
    /\ LET req      == unit.reqs[r]
           existing == GetDocumentByHash(unit.documents, req.user,
                                         req.content_hash)
       IN  unit' = [unit EXCEPT !.reqs[r] =
                     IF req.file # "ok" THEN [req EXCEPT !.pc = "refused"]
                     ELSE IF existing.id # 0
                     THEN [req EXCEPT !.pc = "done", !.duplicate = TRUE,
                                      !.returned = existing.id]
                     ELSE [req EXCEPT !.pc = "store"]]
    /\ UNCHANGED <<mode, stack, nCalls, cost, deep, gen>>

\* storage.ensure_bucket and storage.upload_file
UploadStore(r) ==
    /\ Uploading(r, "store")
    /\ \E ok \in BOOLEAN :
        unit' = IF ok
                THEN [unit EXCEPT
                        !.reqs[r].pc = "create",
                        !.objects = Append(@, [user_id |-> unit.reqs[r].user,
                                               request |-> r])]
                ELSE [unit EXCEPT !.reqs[r].pc = "raised"]
    /\ UNCHANGED <<mode, stack, nCalls, cost, deep, gen>>

\* supabase.create_document, background_tasks.add_task, return document
UploadCreate(r) ==
    /\ Uploading(r, "create")
    /\ \E ok \in BOOLEAN :
        LET req  == unit.reqs[r]
            docs == CreateDocument(unit.documents, req.user, req.content_hash)
        IN  unit' = IF ok
                    THEN [unit EXCEPT
                            !.reqs[r].pc = "done",
                            !.reqs[r].returned = Len(docs),
                            !.documents = docs,
                            !.tasks = Append(@, Len(docs))]
                    ELSE [unit EXCEPT !.reqs[r].pc = "raised"]
    /\ UNCHANGED <<mode, stack, nCalls, cost, deep, gen>>

UploadNext ==
    \E r \in 1..MaxUploads :
        \/ UploadCheck(r)
        \/ UploadStore(r)
        \/ UploadCreate(r)

UploadSpec == UploadInit /\ [][UploadNext]_vars

----------------------------------------------------------------------------
(* process_document (backend/app/services/ingestion_service.py) and        *)
(* reingest_document (backend/app/api/routes/documents.py), for one         *)
(* document.  The runs of process_document are background tasks on one      *)
(* event loop: each await is a point where another task or request runs.    *)

\* Re-ingestion requests in one run of the model.
MaxReingests == 1
\* Chunks that chunk_text returns for the document.
MaxChunks == 2

\* A column that holds NULL, and an argument that is None.
NULL == "NULL"

\* update_document_status: the row after the PATCH.  chunk_count is a
\* sequence of no number (None) or of one.
\* clear and reset are clear_error and reset_chunk_count.
UpdateDocumentStatus(doc, status, error_message, chunk_count, clear, reset) ==
    [status |-> status,
     error_message |-> IF error_message # NULL THEN error_message
                       ELSE IF clear THEN NULL
                       ELSE doc.error_message,
     chunk_count |-> IF chunk_count # <<>> THEN chunk_count
                     ELSE IF reset THEN <<>>
                     ELSE doc.chunk_count]

\* A run of process_document that has not started: n is the number of
\* chunks it has computed, sets the statuses it has set.
NewRun == [pc |-> "mark", n |-> 0, sets |-> <<>>, stored |-> FALSE]

\* The rows of the chunks table that run r inserts.
ChunkRecords(r, n) == [i \in 1..n |-> [run |-> r, chunk_index |-> i - 1]]

\* The document after upload_document: pending, one ingestion task added.
IngestInit ==
    UnitInit([fn |-> "process_document",
              doc |-> [status |-> "pending", error_message |-> NULL,
                       chunk_count |-> <<0>>],
              chunks |-> <<>>,          \* the rows of the chunks table
              runs |-> <<NewRun>>,      \* the process_document tasks added
              reingest |-> "idle",      \* the re-ingestion request in progress
              reingests |-> 0])

Ingesting(r, pc) ==
    /\ mode = "unit"
    /\ unit.fn = "process_document"
    /\ r \in DOMAIN unit.runs
    /\ unit.runs[r].pc = pc

\* A step of run r raises: the except clause is entered.
RunRaises(r) == [unit EXCEPT !.runs[r].pc = "except"]

\* await supabase.update_document_status(document_id, "processing")
RunMark(r) ==
    /\ Ingesting(r, "mark")
    /\ \E ok \in BOOLEAN :
        unit' = IF ok
                THEN [unit EXCEPT
                        !.doc = UpdateDocumentStatus(@, "processing", NULL,
                                                     <<>>, FALSE, FALSE),
                        !.runs[r].sets = Append(@, "processing"),
                        !.runs[r].pc = "prepare"]
                ELSE RunRaises(r)
    /\ UNCHANGED <<mode, stack, nCalls, cost, deep, gen>>

\* The document is read, the file downloaded, text and images extracted, the
\* images uploaded, the metadata extracted and saved.
RunPrepare(r) ==
    /\ Ingesting(r, "prepare")
    /\ \E ok \in BOOLEAN :
        unit' = IF ok THEN [unit EXCEPT !.runs[r].pc = "chunk"]
                ELSE RunRaises(r)
    /\ UNCHANGED <<mode, stack, nCalls, cost, deep, gen>>

\* chunk_text, which may return no chunk, and embedding_service.embed_chunks
RunChunk(r) ==
    /\ Ingesting(r, "chunk")
    /\ \E n \in 0..MaxChunks, ok \in BOOLEAN :
        unit' = IF n > 0 /\ ok
                THEN [unit EXCEPT !.runs[r].n = n, !.runs[r].pc = "store"]
                ELSE RunRaises(r)
    /\ UNCHANGED <<mode, stack, nCalls, cost, deep, gen>>

\* await supabase.create_chunks(chunk_records): one bulk insert
RunStore(r) ==
    /\ Ingesting(r, "store")
    /\ \E ok \in BOOLEAN :
        unit' = IF ok
                THEN [unit EXCEPT
                        !.chunks = @ \o ChunkRecords(r, unit.runs[r].n),
                        !.runs[r].stored = TRUE,
                        !.runs[r].pc = "complete"]
                ELSE RunRaises(r)
    /\ UNCHANGED <<mode, stack, nCalls, cost, deep, gen>>

\* update_document_status(document_id, "completed", chunk_count=len(chunks))
RunComplete(r) ==
    /\ Ingesting(r, "complete")
    /\ \E ok \in BOOLEAN :
        unit' = IF ok
                THEN [unit EXCEPT
                        !.doc = UpdateDocumentStatus(@, "completed", NULL,
                                                     <<unit.runs[r].n>>,
                                                     FALSE, FALSE),
                        !.runs[r].sets = Append(@, "completed"),
                        !.runs[r].pc = "ended"]
                ELSE RunRaises(r)
    /\ UNCHANGED <<mode, stack, nCalls, cost, deep, gen>>

\* except Exception as e: update_document_status(document_id, "failed",
\* error_message=str(e))
ExceptMarksFailed(doc, e) ==
    UpdateDocumentStatus(doc, "failed", e, <<>>, FALSE, FALSE)

\* The except clause; its own update may raise, which ends the task.
RunExcept(r) ==
    /\ Ingesting(r, "except")
    /\ \E ok \in BOOLEAN :
        unit' = IF ok
                THEN [unit EXCEPT
                        !.doc = ExceptMarksFailed(@, ErrText),
                        !.runs[r].sets = Append(@, "failed"),
                        !.runs[r].pc = "ended"]
                ELSE [unit EXCEPT !.runs[r].pc = "raised"]
    /\ UNCHANGED <<mode, stack, nCalls, cost, deep, gen>>

InIngest == mode = "unit" /\ unit.fn = "process_document"

\* reingest_document: get_document, then delete_chunks_by_document.
ReingestDelete ==
    /\ InIngest
    /\ unit.reingest = "idle"
    /\ unit.reingests < MaxReingests
    /\ \E ok \in BOOLEAN :
        unit' = IF ok
                THEN [unit EXCEPT !.chunks = <<>>, !.reingest = "reset",
                                  !.reingests = @ + 1]
                ELSE [unit EXCEPT !.reingests = @ + 1]
    /\ UNCHANGED <<mode, stack, nCalls, cost, deep, gen>>

\* reingest_document: the status is reset and the task added.
ReingestReset ==
    /\ InIngest
    /\ unit.reingest = "reset"
    /\ \E ok \in BOOLEAN :
        unit' = IF ok
                THEN [unit EXCEPT
                        !.doc = UpdateDocumentStatus(@, "pending", NULL, <<>>,
                                                     TRUE, TRUE),
                        !.runs = Append(@, NewRun),
                        !.reingest = "idle"]
                ELSE [unit EXCEPT !.reingest = "idle"]
    /\ UNCHANGED <<mode, stack, nCalls, cost, deep, gen>>

IngestNext ==
    \/ \E r \in 1..(MaxReingests + 1) :
        \/ RunMark(r)
        \/ RunPrepare(r)
        \/ RunChunk(r)
        \/ RunStore(r)
        \/ RunComplete(r)
        \/ RunExcept(r)
    \/ ReingestDelete
    \/ ReingestReset

IngestSpec == IngestInit /\ [][IngestNext]_vars

----------------------------------------------------------------------------
(* The specifications of the agent loop and of send_message *)

Next ==
    \/ DecideFails
    \/ DecideNoTools
    \/ DecideTools
    \/ StartToolCall
    \/ RunTool
    \/ RunAnalyzeEarly
    \/ RunAnalyzeNested
    \/ StreamDelta
    \/ StreamFails
    \/ StreamEnd
    \/ DeepDescend
    \/ DeepReturn
    \/ SendRetrieve
    \/ GenSources
    \/ GenImages
    \/ GenDelta
    \/ GenStreamFails
    \/ GenStreamEnd
    \/ GenSave
    \/ GenSaveFails

Spec == Init /\ [][Next]_vars

\* One cooperative flow: whatever step is possible is eventually taken.
LiveSpec == Init /\ [][Next]_vars /\ WF_vars(Next)

\* retrieve on its own, and its two callers.
RetrievalInit ==
    \/ RetrieveInit
    \/ ExecRetrieveInit
    \/ /\ mode = "chat"
       /\ stack = <<>>
       /\ nCalls = 0
       /\ cost = 0
       /\ deep = 0
       /\ unit = NoUnit
       /\ gen = GenNew

RetrievalNext ==
    \/ RetrieveCall
    \/ ExecRetrieveQuery
    \/ ExecRetrieveFinish
    \/ SendRetrieve
    \/ GenSources
    \/ GenImages
    \/ GenDelta
    \/ GenStreamFails
    \/ GenStreamEnd
    \/ GenSave
    \/ GenSaveFails

RetrievalSpec == RetrievalInit /\ [][RetrievalNext]_vars

----------------------------------------------------------------------------
(* Reading an event sequence *)

IsCallOrResult(e) == e.type \in {"call", "result"}

\* The ToolCallEvents and ToolResultEvents of a sequence, in order.
CallsAndResults(out) == SelectSeq(out, IsCallOrResult)

Count(out, type) == Cardinality({i \in 1..Len(out) : out[i].type = type})

Loops == 1..Len(stack)

----------------------------------------------------------------------------
(* C1: in the events of every loop, the ToolCallEvents and ToolResultEvents *)
(* alternate, starting with a ToolCallEvent, each ToolResultEvent carries   *)
(* the name of the ToolCallEvent before it, and only a loop that is         *)
(* executing a tool has a ToolCallEvent without its ToolResultEvent yet.    *)
C1_CallThenOneResult ==
    \A d \in Loops :
        LET cr == CallsAndResults(stack[d].out)
        IN  /\ \A i \in 1..Len(cr) :
                 IF i % 2 = 1 THEN cr[i].type = "call"
                 ELSE cr[i].type = "result" /\ cr[i].name = cr[i - 1].name
            /\ stack[d].pc \notin {"run", "sub"} => Len(cr) % 2 = 0

\* The top-level loop has ended after a round with two tool calls, one of
\* them unknown to the registry.
C1_Witness ==
    /\ mode = "agent"
    /\ stack[1].pc = "done"
    /\ Len(stack[1].calls) = 2
    /\ \E i \in 1..Len(stack[1].out) :
         stack[1].out[i].type = "result" /\ stack[1].out[i].name = "bogus"

----------------------------------------------------------------------------
(* C2: every loop makes at most MAX_ROUNDS deciding calls; a loop whose     *)
(* MAX_ROUNDS deciding calls all returned tool calls has, once the last     *)
(* round is over, run exactly MAX_ROUNDS rounds and made one streaming call *)
(* over the accumulated history, and it has not raised unless that          *)
(* streaming call did.                                                      *)
IsAssistant(m) == m.role = "assistant"
ToolRounds(f) == Len(SelectSeq(f.messages, IsAssistant))

C2_RoundCap ==
    \A d \in Loops :
        LET f == stack[d]
        IN  /\ f.decides <= MAX_ROUNDS
            /\ (ToolRounds(f) = MAX_ROUNDS /\ f.pc \notin {"exec", "run", "sub"})
                 => /\ f.decides = MAX_ROUNDS
                    /\ f.round = MAX_ROUNDS
                    /\ f.streams = 1
                    /\ f.stream_arg = f.messages
                    /\ f.pc \in {"stream", "done", "raised"}
                    /\ f.pc = "raised" => f.failed = "stream"

\* The top-level loop has ended normally after five rounds of tool calls.
C2_Witness ==
    /\ mode = "agent"
    /\ stack[1].pc = "done"
    /\ ToolRounds(stack[1]) = MAX_ROUNDS
    /\ Len(stack[1].streamed) > 0

----------------------------------------------------------------------------
(* C3: every run of the top-level loop ends, whatever the model asks for,   *)
(* also when it asks for analyze_document again at every nesting level.     *)
AgentEnded == mode = "agent" => stack[1].pc \in {"done", "raised"}

C3_EveryRunEnds == <>AgentEnded

----------------------------------------------------------------------------
(* C4: when an executor raises (retrieve_documents, text_to_sql, web_search *)
(* or analyze_document, the latter also through a failure of its nested     *)
(* loop), the loop that called it does not raise: its next event is the     *)
(* ToolResultEvent of that tool with a result that begins with              *)
(* "Tool execution failed: ", the same text is appended as the tool         *)
(* message, and the loop goes on with the next tool call of the round or    *)
(* with the next round.                                                     *)
ToolFailureAbsorbed(d) ==
    LET f    == stack[d]
        call == f.calls[f.idx]
        n    == Len(f.out)
    IN  /\ Len(stack') >= d
        /\ stack'[d].pc # "raised"
        /\ Len(stack'[d].out) > n
        /\ stack'[d].out[n + 1].type = "result"
        /\ stack'[d].out[n + 1].name = call.name
        /\ Head(stack'[d].out[n + 1].result) = FAILED_PREFIX
        /\ stack'[d].messages =
             Append(f.messages, ToolMessage(call.id, stack'[d].out[n + 1].result))
        /\ IF f.idx < Len(f.calls)
           THEN /\ stack'[d].pc = "exec"
                /\ stack'[d].idx = f.idx + 1
                /\ stack'[d].round = f.round
           ELSE /\ stack'[d].round = f.round + 1
                /\ stack'[d].pc = IF f.round + 1 < MAX_ROUNDS THEN "decide"
                                                               ELSE "stream"

C4_ToolFailureIsolated ==
    /\ [][(RunToolWith("raise") \/ RunAnalyzeEarlyWith("raise"))
             => ToolFailureAbsorbed(Top)]_vars
    /\ [][((DecideFails \/ StreamFails) /\ Top > 1)
             => ToolFailureAbsorbed(Top - 1)]_vars

IsFailure(m) == m.role = "tool" /\ Head(m.content) = FAILED_PREFIX

\* A failed tool call was followed by another tool call of the same round
\* and by a further round.
C4_Witness ==
    /\ mode = "agent"
    /\ \E i \in 1..Len(stack[1].messages) :
         /\ i + 2 <= Len(stack[1].messages)
         /\ IsFailure(stack[1].messages[i])
         /\ stack[1].messages[i + 1].role = "tool"
         /\ stack[1].messages[i + 2].role = "assistant"

----------------------------------------------------------------------------
(* C5: a loop whose first deciding response held no tool calls has yielded  *)
(* nothing but the deltas of its one streaming call, in order, and that     *)
(* call was made with the initial chat_messages.                            *)
TextEvents(deltas) == [i \in 1..Len(deltas) |-> TextEvent(deltas[i])]

FirstResponseHadNoTools(f) ==
    f.decides >= 1 /\ f.round = 0 /\ f.calls = <<>> /\ f.failed # "decide"

C5_NoToolsOnlyText ==
    \A d \in Loops :
        LET f == stack[d]
        IN  FirstResponseHadNoTools(f)
              => /\ f.out = TextEvents(f.streamed)
                 /\ f.decides = 1
                 /\ f.streams = 1
                 /\ f.stream_arg = f.chat_messages

\* The top-level loop ended after streaming two deltas, with no tool round.
C5_Witness ==
    /\ mode = "agent"
    /\ stack[1].pc = "done"
    /\ FirstResponseHadNoTools(stack[1])
    /\ Len(stack[1].out) = 2

----------------------------------------------------------------------------
(* C6 *)

IsRetrieveResult(e) == e.type = "result" /\ e.name = "retrieve_documents"

\* A SourcesEvent comes directly after the ToolResultEvent of a
\* retrieve_documents call, an ImagesEvent directly after it or after the
\* SourcesEvent that follows it.
AfterRetrieval(out) ==
    \A i \in 1..Len(out) :
        /\ out[i].type = "sources" => i > 1 /\ IsRetrieveResult(out[i - 1])
        /\ out[i].type = "images" =>
             /\ i > 1
             /\ \/ IsRetrieveResult(out[i - 1])
                \/ /\ out[i - 1].type = "sources"
                   /\ i > 2
                   /\ IsRetrieveResult(out[i - 2])

\* The events of the round a loop is in (or has just ended).
ThisRound(f) == SubSeq(f.out, f.round_base + 1, Len(f.out))

(* C6 as claimed: sources and images follow only a retrieval result, and    *)
(* within one round each is yielded at most once.                           *)
C6_OncePerRound ==
    \A d \in Loops :
        /\ AfterRetrieval(stack[d].out)
        /\ Count(ThisRound(stack[d]), "sources") <= 1
        /\ Count(ThisRound(stack[d]), "images") <= 1

(* C6 as amended: a SourcesEvent or ImagesEvent is yielded only directly    *)
(* after the ToolResultEvent of a retrieve_documents call (the ImagesEvent  *)
(* possibly after that call's SourcesEvent), hence at most once each per    *)
(* retrieve_documents call.                                                 *)
C6_OncePerRetrieval ==
    \A d \in Loops : AfterRetrieval(stack[d].out)

\* A retrieval result was followed by a SourcesEvent and an ImagesEvent.
C6_Witness ==
    /\ mode = "agent"
    /\ \E i \in 1..Len(stack[1].out) :
         /\ i + 2 <= Len(stack[1].out)
         /\ IsRetrieveResult(stack[1].out[i])
         /\ stack[1].out[i + 1].type = "sources"
         /\ stack[1].out[i + 2].type = "images"

----------------------------------------------------------------------------
(* C7: every SubAgentEvent a loop has yielded wraps a ToolCallEvent, a      *)
(* ToolResultEvent or a text delta, never a SourcesEvent or ImagesEvent,    *)
(* and a loop that is executing analyze_document has yielded nothing but    *)
(* SubAgentEvents since the ToolCallEvent of that call.                     *)
NonSub(out) == {i \in 1..Len(out) : out[i].type # "sub"}

C7_SubAgentIsolation ==
    \A d \in Loops :
        LET out == stack[d].out
        IN  /\ \A i \in 1..Len(out) :
                 out[i].type = "sub" =>
                     out[i].inner.type \in {"call", "result", "text"}
            /\ stack[d].pc = "sub" =>
                 \E k \in NonSub(out) :
                     /\ \A j \in NonSub(out) : j <= k
                     /\ out[k].type = "call"
                     /\ out[k].name = "analyze_document"

\* A nested loop has yielded a SourcesEvent.
C7_Witness ==
    /\ Len(stack) >= 2
    /\ stack[1].pc = "sub"
    /\ Count(stack[2].out, "sources") >= 1

----------------------------------------------------------------------------
(* C8: what a loop has yielded since the ToolCallEvent of the               *)
(* analyze_document call it is executing is the events of the nested loop   *)
(* other than SourcesEvent and ImagesEvent, each wrapped in a               *)
(* SubAgentEvent, in the same order.                                        *)
NotSourcesOrImages(e) == e.type \notin {"sources", "images"}

Wrapped(events) == [i \in 1..Len(events) |-> SubAgentEvent(events[i])]

\* The events after the last ToolCallEvent of out.
SinceLastCall(out) ==
    LET k == CHOOSE i \in 1..Len(out) :
                 /\ out[i].type = "call"
                 /\ \A j \in (i + 1)..Len(out) : out[j].type # "call"
    IN  SubSeq(out, k + 1, Len(out))

C8_EveryEventRewrapped ==
    \A d \in Loops :
        d >= 2 => SinceLastCall(stack[d - 1].out)
                    = Wrapped(SelectSeq(stack[d].out, NotSourcesOrImages))

----------------------------------------------------------------------------
(* C9 *)

RECURSIVE ConcatText(_)
\* The concatenation of the text deltas of an event sequence.
ConcatText(out) ==
    IF out = <<>> THEN <<>>
    ELSE (IF Head(out).type = "text" THEN Head(out).text ELSE <<>>)
         \o ConcatText(Tail(out))

\* A nested loop is the one running.
NestedRunning == mode = "agent" /\ deep = 0 /\ Top >= 2

\* In this step the parent of the running loop ends its analyze_document
\* call with result: its next event is the ToolResultEvent with that result
\* and its last message the tool message with it.
AnalyzeResultIs(result) ==
    LET parent == stack[Top - 1]
        n      == Len(parent.out)
    IN  /\ Len(stack') = Top - 1
        /\ Len(stack'[Top - 1].out) > n
        /\ stack'[Top - 1].out[n + 1]
             = ToolResultEvent("analyze_document", result)
        /\ stack'[Top - 1].messages
             = Append(parent.messages,
                      ToolMessage(parent.calls[parent.idx].id, result))

\* In this step the parent yields the next delta of the nested loop's
\* stream wrapped in a SubAgentEvent, and nothing else.
DeltaOnlyWrapped ==
    LET parent == stack[Top - 1]
        delta  == Delta(Len(stack[Top].streamed) + 1)
    IN  stack'[Top - 1].out
          = Append(parent.out, SubAgentEvent(TextEvent(delta)))

(* C9 as claimed: whenever a nested loop ends, the result of the            *)
(* analyze_document call is the concatenation of the deltas it streamed,    *)
(* and the parent yields those deltas only wrapped in a SubAgentEvent.      *)
C9_ResultIsStreamedText ==
    /\ [][(NestedRunning /\ Len(stack') < Top)
             => AnalyzeResultIs(ConcatText(stack[Top].out))]_vars
    /\ [][(NestedRunning /\ StreamDelta) => DeltaOnlyWrapped]_vars

(* C9 as amended: when a nested loop ends without raising, the result of    *)
(* the analyze_document call is the concatenation of the deltas it          *)
(* streamed; when a model call of the nested loop raises, the result is     *)
(* "Tool execution failed: " and the error, whatever was streamed; the      *)
(* parent yields the deltas only wrapped in a SubAgentEvent.                *)
C9_ResultIsStreamedTextUnlessRaised ==
    /\ [][(NestedRunning /\ StreamEnd)
             => AnalyzeResultIs(ConcatText(stack[Top].out))]_vars
    /\ [][(NestedRunning /\ (DecideFails \/ StreamFails))
             => AnalyzeResultIs(Failed(ErrText))]_vars
    /\ [][(NestedRunning /\ StreamDelta) => DeltaOnlyWrapped]_vars

\* An analyze_document call has returned the two deltas of its nested loop.
C9_Witness ==
    /\ mode = "agent"
    /\ \E i \in 1..Len(stack[1].out) :
         stack[1].out[i]
           = ToolResultEvent("analyze_document", Delta(1) \o Delta(2))

----------------------------------------------------------------------------
(* C10: a failure of a model call of the top-level loop leaves the loop as  *)
(* an exception and nothing follows; a failure of the streaming call of     *)
(* send_message ends the generator with exactly one error event, which is   *)
(* the last event, with no "[DONE]" and no assistant message stored.        *)
SseCount(sse, data) == Cardinality({i \in 1..Len(sse) : sse[i].data = data})

C10_ModelFailureIsTerminal ==
    /\ (mode = "agent" /\ stack[1].failed # "no")
         => stack[1].pc = "raised" /\ ~ENABLED Next
    /\ (mode = "chat" /\ gen.failed = "llm")
         => /\ gen.pc = "end"
            /\ ~ENABLED Next
            /\ gen.sse # <<>>
            /\ gen.sse[Len(gen.sse)] = SseError(ErrText)
            /\ SseCount(gen.sse, "error") = 1
            /\ SseCount(gen.sse, "[DONE]") = 0
            /\ gen.saved = <<>>

\* The streaming call of send_message raised after sources and one delta.
C10_Witness ==
    /\ mode = "chat"
    /\ gen.failed = "llm"
    /\ gen.chunks
    /\ gen.deltas = 1

----------------------------------------------------------------------------
(* C11: in every loop, the k-th ToolCallEvent of the current round is that  *)
(* of the k-th tool call the model returned; when the ToolCallEvent of tool *)
(* call k has been yielded, the ToolResultEvents and the tool messages of   *)
(* the tool calls 1..k-1, and no others, have been produced, in that order. *)
LastAssistant(messages) ==
    LET A == {i \in 1..Len(messages) : messages[i].role = "assistant"}
    IN  IF A = {} THEN Len(messages)
        ELSE CHOOSE i \in A : \A j \in A : j <= i

\* The tool messages of the round a loop is in (or has just ended).
RoundMessages(f) ==
    SubSeq(f.messages, LastAssistant(f.messages) + 1, Len(f.messages))

\* How many tool calls of the round have started, and how many have ended.
Started(f) ==
    IF f.pc \in {"run", "sub"} THEN f.idx
    ELSE IF f.pc = "exec" THEN f.idx - 1 ELSE Len(f.calls)
Ended(f) ==
    IF f.pc \in {"exec", "run", "sub"} THEN f.idx - 1 ELSE Len(f.calls)

C11_SequentialInOrder ==
    \A d \in Loops :
        LET f    == stack[d]
            cr   == CallsAndResults(ThisRound(f))
            msgs == RoundMessages(f)
        IN  /\ Len(cr) = Started(f) + Ended(f)
            /\ Len(msgs) = Ended(f)
            /\ \A k \in 1..Started(f) :
                 cr[2 * k - 1] = ToolCallEvent(f.calls[k].name, f.calls[k].id)
            /\ \A k \in 1..Ended(f) :
                 /\ cr[2 * k].type = "result"
                 /\ cr[2 * k].name = f.calls[k].name
                 /\ msgs[k] = ToolMessage(f.calls[k].id, cr[2 * k].result)

\* The second of two different tool calls of a round is being executed.
C11_Witness ==
    /\ mode = "agent"
    /\ stack[1].pc = "run"
    /\ stack[1].idx = 2
    /\ stack[1].calls[1].name # stack[1].calls[2].name

----------------------------------------------------------------------------
(* C12: the execution of a tool call whose name is none of the four tools   *)
(* yields the ToolResultEvent "Unknown tool: <name>", leaves the context as *)
(* no executor ran on it, appends that text as the tool message, and the    *)
(* loop goes on with the next tool call or the next round.                  *)
KnownTools == TOOL_EXECUTORS \cup {"analyze_document"}

UnknownToolRunning ==
    /\ Running("run")
    /\ stack[Top].calls[stack[Top].idx].name \notin KnownTools

UnknownToolAnswered ==
    LET f      == stack[Top]
        call   == f.calls[f.idx]
        n      == Len(f.out)
        result == <<UNKNOWN_PREFIX, call.name>>
        g      == stack'[Top]
    IN  /\ Len(stack') = Top
        /\ g.out = Append(f.out, ToolResultEvent(call.name, result))
        /\ g.messages = Append(f.messages, ToolMessage(call.id, result))
        /\ g.sources = f.sources
        /\ g.image_refs = f.image_refs
        /\ IF f.idx < Len(f.calls)
           THEN g.pc = "exec" /\ g.idx = f.idx + 1 /\ g.round = f.round
           ELSE /\ g.round = f.round + 1
                /\ g.pc = IF f.round + 1 < MAX_ROUNDS THEN "decide" ELSE "stream"

C12_UnknownTool == [][UnknownToolRunning => UnknownToolAnswered]_vars

\* An unknown tool was answered and the next tool call of the round started.
C12_Witness ==
    /\ mode = "agent"
    /\ \E i \in 1..Len(stack[1].out) :
         /\ i < Len(stack[1].out)
         /\ stack[1].out[i]
              = ToolResultEvent("bogus", <<UNKNOWN_PREFIX, "bogus">>)
         /\ stack[1].out[i + 1].type = "call"

----------------------------------------------------------------------------
(* Reading the result of reciprocal_rank_fusion *)

RrfDone == mode = "unit" /\ unit.fn = "rrf" /\ unit.pc = "done"

RECURSIVE Gcd(_, _)
Gcd(a, b) == IF b = 0 THEN a ELSE Gcd(b, a % b)

\* A fraction of non-negative numerator in lowest terms.
Lowest(p) == Frac(p.num \div Gcd(p.num, p.den), p.den \div Gcd(p.num, p.den))

EqFrac(p, q) == Lowest(p) = Lowest(q)

\* The rank of id in a result list, from 1, or 0 when the list lacks it.
RankIn(results, id) ==
    IF \E i \in DOMAIN results : results[i].id = id
    THEN CHOOSE i \in DOMAIN results : results[i].id = id
    ELSE 0

\* w / (k + r), or 0 for r = 0.
RankTerm(w, k, r) == IF r = 0 THEN Frac(0, 1) ELSE Frac(w.num, w.den * (k + r))

\* alpha/(k+r) + (1-alpha)/(k+r') for the chunk id.
RrfScore(id, vector_results, keyword_results, alpha, k) ==
    AddFrac(RankTerm(alpha, k, RankIn(vector_results, id)),
            RankTerm(Frac(alpha.den - alpha.num, alpha.den), k,
                     RankIn(keyword_results, id)))

Ids(results) == [i \in DOMAIN results |-> results[i].id]
IdSet(results) == {results[i].id : i \in DOMAIN results}

\* Where id is first seen when the vector list is read before the keyword list.
FirstSeen(id, vector_results, keyword_results) ==
    RankIn(vector_results \o keyword_results, id)

----------------------------------------------------------------------------
(* C13: for alpha in [0, 1], every chunk of the result of                   *)
(* reciprocal_rank_fusion has the score alpha/(k+r) + (1-alpha)/(k+r'),     *)
(* ranks counted from 1 and a term 0 for a list that lacks the chunk; the   *)
(* order is fixed by the inputs (descending score, chunks of equal score in *)
(* the order they are first seen); vector [A,B], keyword [B,C], alpha 1/2,  *)
(* k = 60 give B, A, C.                                                     *)
C13_RrfScores ==
    RrfDone =>
        LET v  == unit.vector_results
            kw == unit.keyword_results
            r  == unit.result
        IN  /\ (~Less(unit.alpha, Frac(0, 1)) /\ ~Less(Frac(1, 1), unit.alpha))
                 => \A i \in DOMAIN r :
                        EqFrac(r[i].similarity,
                               RrfScore(r[i].id, v, kw, unit.alpha, unit.k))
            /\ \A i, j \in DOMAIN r :
                 i < j => \/ Less(r[j].similarity, r[i].similarity)
                          \/ /\ EqFrac(r[i].similarity, r[j].similarity)
                             /\ FirstSeen(r[i].id, v, kw) < FirstSeen(r[j].id, v, kw)
            /\ (/\ Ids(v) = <<"A", "B">>
                /\ Ids(kw) = <<"B", "C">>
                /\ unit.alpha = Frac(1, 2)
                /\ unit.k = RRF_K)
                 => Ids(r) = <<"B", "A", "C">>

\* The example of the claim has been fused.
C13_Witness ==
    /\ RrfDone
    /\ Ids(unit.vector_results) = <<"A", "B">>
    /\ Ids(unit.keyword_results) = <<"B", "C">>
    /\ unit.alpha = Frac(1, 2)
    /\ unit.k = RRF_K
    /\ Len(unit.result) = 3

----------------------------------------------------------------------------
(* C14: reciprocal_rank_fusion returns for an alpha above 1 what it returns *)
(* for alpha = 1, and for an alpha below 0 what it returns for alpha = 0:   *)
(* the same chunks in the same order with the same scores.                  *)
C14_AlphaClamped ==
    RrfDone =>
        /\ Less(Frac(1, 1), unit.alpha) =>
              unit.result = reciprocal_rank_fusion(
                  unit.vector_results, unit.keyword_results, Frac(1, 1), unit.k)
        /\ Less(unit.alpha, Frac(0, 1)) =>
              unit.result = reciprocal_rank_fusion(
                  unit.vector_results, unit.keyword_results, Frac(0, 1), unit.k)

\* Two different non-empty lists have been fused with alpha = 3/2.
C14_Witness ==
    /\ RrfDone
    /\ unit.alpha = Frac(3, 2)
    /\ Len(unit.vector_results) = 2
    /\ Len(unit.keyword_results) = 2
    /\ unit.vector_results # unit.keyword_results

----------------------------------------------------------------------------
(* C15: the result of reciprocal_rank_fusion holds every chunk id of either *)
(* input list exactly once and no other id, and its scores do not increase  *)
(* from one element to the next.                                            *)
C15_RrfDedupSorted ==
    RrfDone =>
        LET r == unit.result
        IN  /\ IdSet(r) = IdSet(unit.vector_results) \cup IdSet(unit.keyword_results)
            /\ \A i, j \in DOMAIN r : i # j => r[i].id # r[j].id
            /\ \A i \in DOMAIN r :
                 i < Len(r) => ~Less(r[i].similarity, r[i + 1].similarity)

\* A chunk of both lists was fused with chunks of one list each, and the
\* chunk first seen is not the best.
C15_Witness ==
    /\ RrfDone
    /\ Len(unit.vector_results) = 2
    /\ Len(unit.keyword_results) = 2
    /\ Len(unit.result) = 3
    /\ unit.result[1].id # unit.vector_results[1].id

----------------------------------------------------------------------------
(* Reading a run of rerank *)

RerankEnded == mode = "unit" /\ unit.fn = "rerank" /\ unit.pc \in {"done", "raised"}

\* The candidate a result entry names: its position from 1, or 0 when the
\* entry has no index or the index names no candidate.
Named(chunks, entry) ==
    IF "index" \notin DOMAIN entry THEN 0
    ELSE IF entry.index \in 0..(Len(chunks) - 1) THEN entry.index + 1
    ELSE IF entry.index \in (-Len(chunks))..(-1) THEN Len(chunks) + entry.index + 1
    ELSE 0

\* The response cannot be read to its end.
Unreadable(chunks, response) ==
    \/ response.kind = "raise"
    \/ \E i \in DOMAIN response.results : Named(chunks, response.results[i]) = 0

NoIdTwice(results) ==
    \A i, j \in DOMAIN results : i # j => results[i].id # results[j].id

----------------------------------------------------------------------------
----------------------------------------------------------------------------
(* C19 as claimed: whatever the backend answers, every chunk rerank returns *)
(* is a candidate, no candidate is returned twice, and at most              *)
(* min(top_n, number of candidates) chunks are returned.                    *)
C19_ReorderedSubset ==
    (RerankEnded /\ unit.posted = 1) =>
        /\ IdSet(unit.result) \subseteq IdSet(unit.chunks)
        /\ NoIdTwice(unit.result)
        /\ Len(unit.result)
             <= Min(TopNOr(unit.top_n, unit.settings), Len(unit.chunks))

(* C19 as amended: every chunk rerank returns is a candidate.  A response   *)
(* read to its end gives one chunk per entry, in the order of the entries:  *)
(* the candidate the entry names, with the score of the entry; so when the  *)
(* entries name different candidates no candidate is returned twice, and    *)
(* when they are no more than the top_n requested at most                   *)
(* min(top_n, number of candidates) chunks are returned.  A failed call or  *)
(* an unreadable response gives all the candidates back, whatever top_n.    *)
C19_OneChunkPerEntry ==
    (RerankEnded /\ unit.posted = 1) =>
        LET entries == unit.response.results
        IN  /\ IdSet(unit.result) \subseteq IdSet(unit.chunks)
            /\ unit.request_top_n
                 = Min(TopNOr(unit.top_n, unit.settings), Len(unit.chunks))
            /\ IF Unreadable(unit.chunks, unit.response)
               THEN unit.result = unit.chunks
               ELSE /\ Len(unit.result) = Len(entries)
                    /\ \A i \in DOMAIN entries :
                         /\ unit.result[i].id
                              = unit.chunks[Named(unit.chunks, entries[i])].id
                         /\ unit.result[i].similarity = entries[i].relevance_score
                    /\ (\A i, j \in DOMAIN entries :
                           i # j => Named(unit.chunks, entries[i])
                                      # Named(unit.chunks, entries[j]))
                         => NoIdTwice(unit.result)
                    /\ Len(entries) <= unit.request_top_n
                         => Len(unit.result) <= unit.request_top_n

\* Two candidates came back in the opposite order.
C19_Witness ==
    /\ RerankEnded
    /\ unit.posted = 1
    /\ Len(unit.chunks) = 2
    /\ Len(unit.result) = 2
    /\ unit.result[1].id = unit.chunks[2].id
    /\ unit.result[2].id = unit.chunks[1].id

----------------------------------------------------------------------------
(* C16: with reranking disabled, in each of the three search modes, a call  *)
(* of retrieve that returns gives at most limit results, of non-increasing  *)
(* similarity, and a call that fails returns nothing.                       *)
RetrieveEnded ==
    mode = "unit" /\ unit.fn = "retrieve" /\ unit.pc \in {"done", "raised"}

NonIncreasing(results) ==
    \A i \in DOMAIN results :
        i < Len(results) => ~Less(results[i].similarity, results[i + 1].similarity)

----------------------------------------------------------------------------
(* C17: retrieve raises when the embedding call or a search it makes fails; *)
(* _execute_retrieve does not raise then, gives every query to retrieve,    *)
(* and answers "No relevant documents found." when all of them failed;      *)
(* send_message goes on without chunks: the base system prompt, no sources  *)
(* and no images sent, and the answer streamed, stored and closed by        *)
(* "[DONE]".                                                                *)
BackendFails(settings, world) ==
    \/ settings.search_mode \in {"vector", "hybrid"}
         /\ world.fails \in {"embed", "vector"}
    \/ settings.search_mode \in {"keyword", "hybrid"}
         /\ world.fails = "keyword"

ExecRetrieveRuns == mode = "unit" /\ unit.fn = "execute_retrieve"

C17_RetrievalFailureAbsorbed ==
    /\ (RetrieveEnded /\ BackendFails(unit.settings, unit.world))
         => unit.pc = "raised"
    /\ ExecRetrieveRuns =>
         /\ unit.pc # "raised"
         /\ unit.pc = "done" => unit.searched = Len(unit.queries)
         /\ (unit.pc = "done" /\ unit.skipped = Len(unit.queries))
              => unit.result = NO_DOCUMENTS
    /\ (mode = "chat" /\ gen.retrieval = "failed") =>
         /\ ~gen.chunks
         /\ ~gen.image_refs
         /\ gen.system_prompt = "base"
         /\ SseCount(gen.sse, "sources") = 0
         /\ SseCount(gen.sse, "images") = 0
         /\ (gen.pc = "end" /\ gen.failed = "no") =>
              /\ gen.sse[Len(gen.sse)] = SseDone
              /\ SseCount(gen.sse, "content") = gen.deltas
              /\ gen.saved = <<[role |-> "assistant",
                                content |-> gen.full_response]>>

\* Of three queries two failed and one found chunks.
C17_Witness ==
    /\ ExecRetrieveRuns
    /\ unit.pc = "done"
    /\ Len(unit.queries) = 3
    /\ unit.skipped = 2
    /\ unit.result # NO_DOCUMENTS

----------------------------------------------------------------------------
(* C20: _rewrite_query returns one to three queries, none of them empty,    *)
(* whatever the model answers, and returns just the original query when the *)
(* model call fails, when the response has no line that is not blank, and   *)
(* when a message of the conversation it renders cannot be rendered.        *)
RewriteEnded ==
    mode = "unit" /\ unit.fn = "rewrite" /\ unit.pc \in {"done", "raised"}

NoQueryLine(llm) ==
    llm.kind = "ok" /\ \A i \in DOMAIN llm.lines : llm.lines[i] \in {"", " "}

CannotRender(chat_messages) ==
    \E i \in DOMAIN chat_messages :
        /\ i > Len(chat_messages) - RECENT_MESSAGES
        /\ chat_messages[i].content = "None"

C20_RewriteFallsBack ==
    RewriteEnded =>
        /\ unit.pc = "done"
        /\ Len(unit.result) \in 1..3
        /\ \A i \in DOMAIN unit.result : unit.result[i] # ""
        /\ (\/ unit.llm.kind = "raise"
            \/ NoQueryLine(unit.llm)
            \/ CannotRender(unit.chat_messages))
             => unit.result = <<unit.query>>

----------------------------------------------------------------------------
(* Reading a call of _execute_retrieve *)

ToolCalled == mode = "unit" /\ unit.fn = "retrieve_documents" /\ unit.pc = "done"

Returned(q) ==
    IF unit.retrieved[q].raised THEN <<>> ELSE unit.retrieved[q].results

\* The similarities with which the queries of the last call returned id.
SimilaritiesOf(id) ==
    { Returned(q)[i].similarity :
        <<q, i>> \in { qi \in (DOMAIN unit.retrieved) \X (1..MaxHits) :
                         /\ qi[2] <= Len(Returned(qi[1]))
                         /\ Returned(qi[1])[qi[2]].id = id } }

ReturnedIds ==
    { Returned(qi[1])[qi[2]].id :
        qi \in { qi \in (DOMAIN unit.retrieved) \X (1..MaxHits) :
                   qi[2] <= Len(Returned(qi[1])) } }

Highest(similarities) ==
    CHOOSE x \in similarities : \A y \in similarities : ~Less(x, y)

----------------------------------------------------------------------------
(* C21: after a call of _execute_retrieve the merged chunks hold each chunk *)
(* id at most once, each with the highest similarity with which a query     *)
(* returned it, in order of non-increasing similarity, and they are the     *)
(* first retrieval_limit of the chunks so merged: as many as the limit      *)
(* allows, none less similar than a chunk that was left out.                *)
C21_MergedByMaximum ==
    ToolCalled =>
        LET chunks == unit.chunks
        IN  /\ \A i, j \in DOMAIN chunks : i # j => chunks[i].id # chunks[j].id
            /\ \A i \in DOMAIN chunks :
                  /\ chunks[i].id \in ReturnedIds
                  /\ EqFrac(chunks[i].similarity,
                            Highest(SimilaritiesOf(chunks[i].id)))
            /\ NonIncreasing(chunks)
            /\ Len(chunks) = Min(unit.settings.retrieval_limit,
                                 Cardinality(ReturnedIds))
            /\ \A id \in ReturnedIds :
                  (\A i \in DOMAIN chunks : chunks[i].id # id) =>
                      \A i \in DOMAIN chunks :
                          ~Less(chunks[i].similarity, Highest(SimilaritiesOf(id)))

C21_Witness ==
    /\ ToolCalled
    /\ Len(unit.retrieved) = 2
    /\ Cardinality(SimilaritiesOf("A")) = 2
    /\ Less(Returned(1)[1].similarity, Returned(2)[1].similarity)
    /\ Returned(1)[1].id = "A"
    /\ Cardinality(ReturnedIds) > unit.settings.retrieval_limit
    /\ unit.chunks[1].id = "A"

----------------------------------------------------------------------------
(* C25: a call of _execute_retrieve appends an image reference only for an  *)
(* image_description chunk of the merged chunks whose similarity is at      *)
(* least that of the first chunk times image_similarity_min_ratio.  With a  *)
(* first chunk of similarity 9/10 and the ratio 6/10, an image described    *)
(* only by chunks of similarity 5/10 gets no reference, and the first image *)
(* chunk of similarity 6/10 gets one.                                       *)

\* The references the last call appended to ctx.image_refs.
Added == SubSeq(unit.image_refs, Len(unit.before) + 1, Len(unit.image_refs))

Describes(chunk, ref) ==
    /\ IsImageDescription(chunk)
    /\ chunk.document_id = ref.doc_id
    /\ chunk.metadata.image_index = ref.index

ImageChunks(index) ==
    { i \in DOMAIN unit.chunks :
        /\ IsImageDescription(unit.chunks[i])
        /\ unit.chunks[i].metadata.image_index = index }

C25_ImageFilter ==
    ToolCalled =>
        LET chunks == unit.chunks
        IN  /\ chunks = <<>> => Added = <<>>
            /\ chunks # <<>> =>
                 LET minimum == MulFrac(chunks[1].similarity,
                                        unit.settings.image_similarity_min_ratio)
                 IN  \A r \in DOMAIN Added :
                         \E i \in DOMAIN chunks :
                             /\ Describes(chunks[i], Added[r])
                             /\ ~Less(chunks[i].similarity, minimum)
            /\ (chunks # <<>>
                  /\ EqFrac(chunks[1].similarity, Frac(9, 10))
                  /\ EqFrac(unit.settings.image_similarity_min_ratio, Frac(6, 10))) =>
                 \A index \in {0, 1} :
                     /\ (\A i \in ImageChunks(index) :
                            EqFrac(chunks[i].similarity, Frac(50, 100)))
                          => \A r \in DOMAIN Added : Added[r].index # index
                     /\ (\E i \in ImageChunks(index) :
                            /\ EqFrac(chunks[i].similarity, Frac(60, 100))
                            /\ \A j \in 1..(i - 1) : ~IsImageDescription(chunks[j]))
                          => \E r \in DOMAIN Added : Added[r].index = index

C25_Witness ==
    /\ ToolCalled
    /\ Len(unit.chunks) = 3
    /\ EqFrac(unit.chunks[1].similarity, Frac(9, 10))
    /\ unit.chunks[2].id = "D"
    /\ unit.chunks[3].id = "C"
    /\ Len(Added) = 1
    /\ Added[1].index = 1

----------------------------------------------------------------------------
(* C26: whatever calls of _execute_retrieve a loop invocation has made on   *)
(* its context, ctx.image_refs holds at most image_max_results entries.     *)
ToolContext == mode = "unit" /\ unit.fn = "retrieve_documents"

C26_ImagesCapped ==
    ToolContext => Len(unit.image_refs) <= unit.settings.image_max_results

----------------------------------------------------------------------------
(* C27: whatever calls of _execute_retrieve a loop invocation has made on   *)
(* its context, no two entries of ctx.image_refs name the same image        *)
(* (doc_id, index), and the label of the n-th entry is "Figure n".          *)
C27_ImagesDistinctAndNumbered ==
    ToolContext =>
        /\ \A i, j \in DOMAIN unit.image_refs :
              i # j => \/ unit.image_refs[i].doc_id # unit.image_refs[j].doc_id
                       \/ unit.image_refs[i].index # unit.image_refs[j].index
        /\ \A i \in DOMAIN unit.image_refs :
              unit.image_refs[i].label = <<"Figure", i>>

----------------------------------------------------------------------------
(* Reading a run of _recursive_split *)

ChunkRuns == mode = "unit" /\ unit.fn = "chunk" /\ unit.pc = "run"

\* Every invocation has returned: no chunk is left to split.
ChunkEnded ==
    ChunkRuns /\ \A i \in DOMAIN unit.items : unit.items[i].final

----------------------------------------------------------------------------
(* C22: for every text, every chunk_size >= 1 and every chunk_overlap >= 0, *)
(* also one that is not smaller than chunk_size, a call of _recursive_split *)
(* ends, and none of the chunks it has returned is longer than chunk_size.  *)
C22_SplitEndsWithinSize ==
    ChunkRuns ~> (/\ ChunkEnded
                  /\ \A i \in DOMAIN unit.items :
                        Len(unit.items[i].text) <= unit.chunk_size)

C22_Witness ==
    /\ ChunkEnded
    /\ unit.calls >= 3
    /\ unit.chunk_overlap >= unit.chunk_size
    /\ Len(unit.items) >= 3

----------------------------------------------------------------------------
(* C23 *)

\* The text has none of the characters of the separators.
NoSeparatorCharacter(text) ==
    \A i \in DOMAIN text : text[i] \notin {"\n", ".", " "}

NoWhitespace(text) == \A i \in DOMAIN text : text[i] \notin Whitespace

\* The last n characters of s.
LastOf(s, n) == SubSeq(s, Len(s) - n + 1, Len(s))

BeginsWith(s, prefix) ==
    Len(s) >= Len(prefix) /\ SubSeq(s, 1, Len(prefix)) = prefix

\* In the invocation made last, every buffer but the first started with the
\* last chunk_overlap characters of the buffer before it if that was longer
\* than chunk_overlap, and with nothing otherwise.
SeededByOverlap ==
    \A k \in DOMAIN unit.emitted :
        k > 1 =>
            unit.emitted[k].seed =
                IF unit.chunk_overlap < Len(unit.emitted[k - 1].buffer)
                THEN LastOf(unit.emitted[k - 1].buffer, unit.chunk_overlap)
                ELSE <<>>

\* The call of the example has returned: chunk_size 10, chunk_overlap 3, a
\* text of 25 characters.
ExampleEnded ==
    /\ ChunkEnded
    /\ unit.chunk_size = 10
    /\ unit.chunk_overlap = 3
    /\ Len(unit.text) = 25

\* Every chunk has at most 10 characters, and every chunk after the first
\* begins with the last 3 characters of the buffer emitted before its own.
ExampleOverlaps ==
    /\ Len(unit.items) = Len(unit.emitted)
    /\ \A k \in DOMAIN unit.items :
          /\ Len(unit.items[k].text) <= 10
          /\ k > 1 => BeginsWith(unit.items[k].text,
                                 LastOf(unit.emitted[k - 1].buffer, 3))

(* C23 as claimed: with chunk_size 10 and chunk_overlap 3, the chunks of a  *)
(* text of 25 characters, none of them a separator character, have at most  *)
(* 10 characters, and each but the first begins with the last 3 characters  *)
(* of the buffer emitted before it; in every invocation a new buffer is     *)
(* seeded with the last chunk_overlap characters of the previous buffer if  *)
(* that is longer than chunk_overlap, and with nothing otherwise.           *)
C23_OverlapExample ==
    /\ (ExampleEnded /\ NoSeparatorCharacter(unit.text)) => ExampleOverlaps
    /\ ChunkRuns => SeededByOverlap

(* C23 as amended: the same for a text of 25 characters that holds neither  *)
(* a separator character nor any other whitespace; the seeding of a new     *)
(* buffer is as claimed for every text.                                     *)
C23_OverlapWithoutWhitespace ==
    /\ (ExampleEnded /\ NoSeparatorCharacter(unit.text)
          /\ NoWhitespace(unit.text)) => ExampleOverlaps
    /\ ChunkRuns => SeededByOverlap

C23_Witness ==
    /\ ExampleEnded
    /\ NoWhitespace(unit.text)
    /\ Len(unit.items) = 4
    /\ unit.items[2].text[1] = "c8"
    /\ Len(unit.items[4].text) = 4

----------------------------------------------------------------------------
(* C24: a text no longer than chunk_size gives exactly one chunk, the text  *)
(* without its leading and trailing whitespace, or no chunk at all when it  *)
(* is empty or all whitespace; and no chunk _recursive_split returns, for   *)
(* any text, is empty or all whitespace.                                    *)
Visible(text) == { i \in DOMAIN text : text[i] \notin Whitespace }

\* The text from its first to its last character that is not whitespace.
Trimmed(text) ==
    IF Visible(text) = {} THEN <<>>
    ELSE SubSeq(text,
                CHOOSE i \in Visible(text) : \A j \in Visible(text) : i <= j,
                CHOOSE i \in Visible(text) : \A j \in Visible(text) : j <= i)

C24_ShortTextOneChunk ==
    ChunkRuns =>
        /\ (ChunkEnded /\ Len(unit.text) <= unit.chunk_size) =>
              unit.items = IF Visible(unit.text) = {} THEN <<>>
                           ELSE <<Final(Trimmed(unit.text))>>
        /\ \A k \in DOMAIN unit.items :
              unit.items[k].final => Visible(unit.items[k].text) # {}

C24_Witness ==
    /\ ChunkEnded
    /\ unit.calls = 1
    /\ Len(unit.text) = 3
    /\ unit.chunk_size = 3
    /\ unit.text[1] = " "
    /\ unit.text[3] = "\n"
    /\ unit.items = <<Final(<<"a">>)>>

----------------------------------------------------------------------------
(* C28: SQLService.execute sends a generated query to the backend only if,  *)
(* trimmed, it begins with SELECT and none of its words is a forbidden      *)
(* keyword, whatever stands on either side of the word: a space, a newline, *)
(* a semicolon, a parenthesis or an end of the query; every other generated *)
(* query is answered with "Generated query was rejected: ..." and is not    *)
(* sent, and execute does not raise.                                        *)
SqlDone == mode = "unit" /\ unit.fn = "sql" /\ unit.pc = "done"

BeginsWithSelect(query) ==
    LET trimmed == Trimmed(query)
    IN  trimmed # <<>> /\ Upper(trimmed[1]) = "SELECT"

HasForbiddenWord(query) ==
    \E i \in DOMAIN query : Upper(query[i]) \in FORBIDDEN_KEYWORDS

C28_OnlySafeSelectSent ==
    (SqlDone /\ unit.llm.kind = "ok") =>
        IF BeginsWithSelect(unit.sql) /\ ~HasForbiddenWord(unit.sql)
        THEN unit.rpc.sent => unit.rpc.query_text = unit.sql
        ELSE /\ ~unit.rpc.sent
             /\ unit.result[1] = "Generated query was rejected: "

----------------------------------------------------------------------------
(* C29: every call of get_enabled_tools returns retrieve_documents,         *)
(* text_to_sql and analyze_document and nothing else when the settings      *)
(* passed hold no web-search key, and those three and web_search when they  *)
(* hold one; two calls with the same settings return the same list,         *)
(* whatever was called between them.                                        *)
EnabledCalls ==
    IF mode = "unit" /\ unit.fn = "get_enabled_tools" THEN unit.lists ELSE <<>>

NamesOf(tools) == { tools[i] : i \in DOMAIN tools }

C29_EnabledTools ==
    /\ \A i \in DOMAIN EnabledCalls :
        LET call == EnabledCalls[i]
        IN  /\ Len(call.tools) = Cardinality(NamesOf(call.tools))
            /\ NamesOf(call.tools) =
                 IF call.settings.tavily_api_key = ""
                 THEN {"retrieve_documents", "text_to_sql", "analyze_document"}
                 ELSE {"retrieve_documents", "text_to_sql", "analyze_document",
                       "web_search"}
    /\ \A i, j \in DOMAIN EnabledCalls :
        EnabledCalls[i].settings = EnabledCalls[j].settings
            => EnabledCalls[i].tools = EnabledCalls[j].tools

\* A call without a key that follows a call with a key.
C29_Witness ==
    \E i, j \in DOMAIN EnabledCalls :
        /\ i < j
        /\ EnabledCalls[i].settings.tavily_api_key # ""
        /\ EnabledCalls[j].settings.tavily_api_key = ""
        /\ "web_search" \in NamesOf(EnabledCalls[i].tools)
        /\ "web_search" \notin NamesOf(EnabledCalls[j].tools)

----------------------------------------------------------------------------
(* C30: when no web-search key is configured, every web_search tool call    *)
(* yields its ToolCallEvent and then one ToolResultEvent whose text says    *)
(* that web search is not configured; no request is made to the search      *)
(* backend, no exception leaves the loop, the text is appended to the       *)
(* history as the tool message and the loop goes on to the next call.       *)
WebRun == mode = "unit" /\ unit.fn = "web_search"

Unconfigured == WebRun /\ unit.settings.tavily_api_key = ""

C30_UnconfiguredWebSearch ==
    Unconfigured =>
        /\ ~unit.raised
        /\ unit.posts = <<>>
        /\ Len(unit.messages) = Len(unit.calls)
        /\ \A i \in DOMAIN unit.calls :
            /\ Len(unit.calls[i].events) = 2
            /\ unit.calls[i].events[1].type = "call"
            /\ unit.calls[i].events[2] =
                 ToolResultEvent("web_search", <<NOT_CONFIGURED>>)
            /\ unit.messages[i].content = <<NOT_CONFIGURED>>
        /\ Len(unit.calls) < MaxSearches => ENABLED WebCall

\* Two web_search calls made without a key: the loop went on after the first.
C30_Witness ==
    /\ Unconfigured
    /\ Len(unit.calls) = 2
    /\ unit.out[4].result = <<NOT_CONFIGURED>>

----------------------------------------------------------------------------
(* C31: while a loop executes an analyze_document tool call, from the       *)
(* dispatch of the call to the end of the call, no step changes the         *)
(* sources, image_refs or chat_messages of the context that loop runs on:   *)
(* the retrieval calls of the nested loop write to the nested context.      *)
Analyzing(d) ==
    /\ mode = "agent"
    /\ d \in DOMAIN stack
    /\ stack[d].pc \in {"run", "sub"}
    /\ stack[d].calls[stack[d].idx].name = "analyze_document"

C31_ParentContextUntouched ==
    [][\A d \in DOMAIN stack :
         Analyzing(d) =>
            /\ d \in DOMAIN stack'
            /\ stack'[d].sources = stack[d].sources
            /\ stack'[d].image_refs = stack[d].image_refs
            /\ stack'[d].chat_messages = stack[d].chat_messages]_vars

\* A nested loop has retrieved chunks and an image that its parent lacks.
C31_Witness ==
    /\ mode = "agent"
    /\ Len(stack) = 2
    /\ Analyzing(1)
    /\ stack[2].sources # <<>>
    /\ stack[2].image_refs # <<>>
    /\ stack[1].sources = <<>>
    /\ stack[1].image_refs = <<>>

----------------------------------------------------------------------------
(* C32: the images send_message keeps after the filtering call are: none    *)
(* when the reply is "none"; when the reply is anything else, the           *)
(* discovered images whose position is a number of the reply, each of them  *)
(* at most once; all the discovered images when the call fails.  In every   *)
(* case each kept image is a discovered one.                                *)
FilterDone == mode = "unit" /\ unit.fn = "filter_images" /\ unit.pc = "done"

ImagesOf(refs) == { refs[i] : i \in DOMAIN refs }

NumbersIn(reply) == { ToInt(reply[i]) : i \in { j \in DOMAIN reply :
                                                   reply[j] \in DigitRuns } }

----------------------------------------------------------------------------
(* C33: the history a loop passes to a deciding call after its first one,   *)
(* and to its streaming call, is the chat_messages of its context followed, *)
(* for each round it has completed, in order, by the assistant message with *)
(* the tool calls of the round and then one tool message per call of that   *)
(* message, in the order of the calls, with the id of the call and with the *)
(* result text of the ToolResultEvent yielded for the call.                 *)
IsToolMessage(m) == m.role = "tool"
IsResultEvent(e) == e.type = "result"

\* msgs is a sequence of rounds: an assistant message with tool calls, then
\* one tool message for each of them, in order.
RECURSIVE RoundsOnly(_)
RoundsOnly(msgs) ==
    IF msgs = <<>> THEN TRUE
    ELSE LET head == msgs[1]
         IN  /\ head.role = "assistant"
             /\ LET n == Len(head.tool_calls)
                IN  /\ n >= 1
                    /\ Len(msgs) >= 1 + n
                    /\ \A i \in 1..n :
                         /\ msgs[1 + i].role = "tool"
                         /\ msgs[1 + i].tool_call_id = head.tool_calls[i].id
                    /\ RoundsOnly(SubSeq(msgs, n + 2, Len(msgs)))

AssistantMessagesIn(msgs) ==
    Cardinality({ i \in DOMAIN msgs : msgs[i].role = "assistant" })

\* history is what loop f passes to a model call after rounds rounds.
HistoryOfRounds(f, history, rounds) ==
    LET n     == Len(f.chat_messages)
        added == SubSeq(history, n + 1, Len(history))
        tools == SelectSeq(added, IsToolMessage)
        evs   == SelectSeq(f.out, IsResultEvent)
    IN  /\ Len(history) >= n
        /\ SubSeq(history, 1, n) = f.chat_messages
        /\ RoundsOnly(added)
        /\ AssistantMessagesIn(added) = rounds
        /\ Len(tools) = Len(evs)
        /\ \A k \in DOMAIN tools : tools[k].content = evs[k].result

C33_HistoryOfCompletedRounds ==
    mode = "agent" =>
        \A d \in DOMAIN stack :
            /\ stack[d].pc = "decide"
                 => HistoryOfRounds(stack[d], stack[d].messages, stack[d].round)
            /\ stack[d].streams > 0
                 => HistoryOfRounds(stack[d], stack[d].stream_arg,
                                    stack[d].round)

\* A streaming call made after two rounds, the first of two tool calls.
C33_Witness ==
    /\ mode = "agent"
    /\ stack[1].pc = "stream"
    /\ stack[1].round = 2
    /\ Len(stack[1].stream_arg) = Len(stack[1].chat_messages) + 5
    /\ stack[1].stream_arg[Len(stack[1].chat_messages) + 4].role = "assistant"

----------------------------------------------------------------------------
(* C34: in the events of every loop nothing but text follows a text         *)
(* fragment; a loop that has yielded a text fragment has made its one       *)
(* streaming call and makes no further deciding call; and a loop that has   *)
(* ended normally has made exactly one streaming call.                      *)
HasText(f) == \E i \in DOMAIN f.out : f.out[i].type = "text"

OnlyTextAfterText(f) ==
    \A i, j \in DOMAIN f.out :
        (i < j /\ f.out[i].type = "text") => f.out[j].type = "text"

TextFromOneStream ==
    mode = "agent" =>
        \A d \in DOMAIN stack :
            /\ OnlyTextAfterText(stack[d])
            /\ stack[d].streams <= 1
            /\ HasText(stack[d]) => stack[d].streams = 1
            /\ stack[d].pc = "done" => stack[d].streams = 1

NoDecisionAfterText ==
    \A d \in DOMAIN stack :
        (mode = "agent" /\ HasText(stack[d]) /\ d \in DOMAIN stack')
            => stack'[d].decides = stack[d].decides

C34_TextOnlyFromFinalStream ==
    []TextFromOneStream /\ [][NoDecisionAfterText]_vars

\* A loop that made tool calls, then streamed two fragments and ended.
C34_Witness ==
    /\ mode = "agent"
    /\ stack[1].pc = "done"
    /\ stack[1].round >= 1
    /\ Len(stack[1].streamed) = 2
    /\ stack[1].out[Len(stack[1].out) - 1].type = "text"

----------------------------------------------------------------------------
(* C35: in the events of every loop, the ToolResultEvent of a               *)
(* retrieve_documents call whose result is "No relevant documents found."   *)
(* is followed by no SourcesEvent and no ImagesEvent, and a SourcesEvent    *)
(* that follows the ToolResultEvent of a retrieve_documents call lists the  *)
(* chunks which that call returned.                                         *)
RetrieveResultAt(f, i) ==
    /\ i \in DOMAIN f.out
    /\ i > 1
    /\ f.out[i].type = "result"
    /\ f.out[i].name = "retrieve_documents"

FollowedBy(f, i, type) ==
    \/ /\ i + 1 \in DOMAIN f.out
       /\ f.out[i + 1].type = type
    \/ /\ i + 2 \in DOMAIN f.out
       /\ f.out[i + 1].type = "sources"
       /\ f.out[i + 2].type = type

C35_SourcesOfThisCall ==
    mode = "agent" =>
        \A d \in DOMAIN stack : \A i \in DOMAIN stack[d].out :
            LET f == stack[d]
            IN  RetrieveResultAt(f, i) =>
                  /\ f.out[i].result = NO_DOCUMENTS
                       => /\ ~FollowedBy(f, i, "sources")
                          /\ ~FollowedBy(f, i, "images")
                  /\ FollowedBy(f, i, "sources")
                       => f.out[i + 1].sources = <<f.out[i - 1].arguments>>

----------------------------------------------------------------------------
(* C36: in the events send_message has sent, a sources event comes before   *)
(* everything else and an images event before every content delta, each at  *)
(* most once; "[DONE]" is sent at most once, last, and only when exactly    *)
(* one assistant message has been stored whose content is the concatenation *)
(* of the content deltas sent; never is more than one message stored.       *)
SseRank(e) ==
    CASE e.data = "sources" -> 1
      [] e.data = "images"  -> 2
      [] e.data = "content" -> 3
      [] OTHER              -> 4

RECURSIVE ContentSent(_)
ContentSent(sse) ==
    IF sse = <<>> THEN <<>>
    ELSE (IF Head(sse).data = "content" THEN Head(sse).content ELSE <<>>)
         \o ContentSent(Tail(sse))

SentOf(data) == { i \in DOMAIN gen.sse : gen.sse[i].data = data }

C36_StreamOrderAndSave ==
    mode = "chat" =>
        /\ \A i, j \in DOMAIN gen.sse :
             i < j => SseRank(gen.sse[i]) <= SseRank(gen.sse[j])
        /\ Cardinality(SentOf("sources")) <= 1
        /\ Cardinality(SentOf("images")) <= 1
        /\ Cardinality(SentOf("[DONE]")) <= 1
        /\ Len(gen.saved) <= 1
        /\ SentOf("[DONE]") # {} =>
             /\ SentOf("[DONE]") = {Len(gen.sse)}
             /\ SentOf("error") = {}
             /\ gen.saved = <<[role |-> "assistant",
                               content |-> ContentSent(gen.sse)]>>

\* Sources, images, two deltas and "[DONE]" have been sent.
C36_Witness ==
    /\ mode = "chat"
    /\ SentOf("sources") = {1}
    /\ SentOf("images") = {2}
    /\ SentOf("content") = {3, 4}
    /\ SentOf("[DONE]") = {5}
    /\ gen.saved[1].content = Delta(1) \o Delta(2)

----------------------------------------------------------------------------
(* C37: the documents table never holds two documents of one user with one  *)
(* content hash, however the uploads are interleaved; and an upload that    *)
(* found a document of its user with its hash has returned that document    *)
(* and has created no document, storage object or ingestion task.           *)
UploadRun == mode = "unit" /\ unit.fn = "upload_document"

OnePerUserAndHash ==
    \A i, j \in DOMAIN unit.documents :
        (/\ unit.documents[i].user_id = unit.documents[j].user_id
         /\ unit.documents[i].content_hash = unit.documents[j].content_hash)
            => i = j

DuplicateCreatesNothing ==
    \A r \in DOMAIN unit.reqs :
        unit.reqs[r].duplicate =>
            /\ unit.reqs[r].returned \in DOMAIN unit.documents
            /\ unit.documents[unit.reqs[r].returned].user_id = unit.reqs[r].user
            /\ unit.documents[unit.reqs[r].returned].content_hash
                 = unit.reqs[r].content_hash
            /\ \A k \in DOMAIN unit.objects : unit.objects[k].request # r
            /\ unit.reqs[r].returned
                 \in { unit.reqs[q].returned :
                         q \in { x \in DOMAIN unit.reqs :
                                   x # r /\ ~unit.reqs[x].duplicate } }

C37_OneDocumentPerHash ==
    UploadRun => (OnePerUserAndHash /\ DuplicateCreatesNothing)

----------------------------------------------------------------------------
(* C39: a run of process_document that has ended has set the status to      *)
(* processing first and to completed or failed last; it has set completed   *)
(* only after storing all its chunks and with chunk_count equal to their    *)
(* number, and never after failed.                                          *)
RunEnded(r) ==
    /\ InIngest
    /\ r \in DOMAIN unit.runs
    /\ unit.runs[r].pc \in {"ended", "raised"}

StatusesOf(r) == unit.runs[r].sets

C39_StatusReachesEnd ==
    InIngest =>
        \A r \in DOMAIN unit.runs :
            /\ RunEnded(r) =>
                 /\ StatusesOf(r) # <<>>
                 /\ StatusesOf(r)[1] = "processing"
                 /\ StatusesOf(r)[Len(StatusesOf(r))] \in {"completed", "failed"}
            /\ \A i \in DOMAIN StatusesOf(r) :
                 StatusesOf(r)[i] = "completed" =>
                    /\ unit.runs[r].stored
                    /\ unit.runs[r].n >= 1
                    /\ \A j \in 1..(i - 1) : StatusesOf(r)[j] # "failed"

----------------------------------------------------------------------------
(* C38: once the run that a re-ingestion request started has ended with     *)
(* status completed and no run of the document is still in progress, the    *)
(* chunks table holds for the document exactly the chunks of one run, each  *)
(* chunk_index once, and chunk_count is the number of rows.                 *)
Quiescent ==
    /\ unit.reingest = "idle"
    /\ \A r \in DOMAIN unit.runs : RunEnded(r)

ReingestCompleted ==
    /\ InIngest
    /\ Quiescent
    /\ unit.doc.status = "completed"
    /\ \E r \in DOMAIN unit.runs :
        /\ r >= 2
        /\ StatusesOf(r) # <<>>
        /\ StatusesOf(r)[Len(StatusesOf(r))] = "completed"

C38_ReingestReplacesChunks ==
    ReingestCompleted =>
        /\ \E r \in DOMAIN unit.runs :
             unit.chunks = ChunkRecords(r, unit.runs[r].n)
        /\ \A i, j \in DOMAIN unit.chunks :
             unit.chunks[i].chunk_index = unit.chunks[j].chunk_index => i = j
        /\ unit.doc.chunk_count = <<Len(unit.chunks)>>

----------------------------------------------------------------------------
(* C40: when a call of _recursive_split has ended, the characters of the    *)
(* text that are not whitespace, in their order, are what the chunks give   *)
(* in order once a beginning that repeats the chunk before (its overlap) is *)
(* taken off each chunk: no such character of the text is in no chunk.      *)
IsVisible(c) == c \notin Whitespace

NonWhite(text) == SelectSeq(text, IsVisible)

\* target is made of an ending of each of the chunks k, k + 1, ... in order.
RECURSIVE Reproduces(_, _, _)
Reproduces(items, k, target) ==
    IF k > Len(items) THEN target = <<>>
    ELSE LET c == NonWhite(items[k].text)
         IN  \E d \in 0..Len(c) :
                LET ending == SubSeq(c, d + 1, Len(c))
                IN  /\ Len(ending) <= Len(target)
                    /\ SubSeq(target, 1, Len(ending)) = ending
                    /\ Reproduces(items, k + 1,
                                  SubSeq(target, Len(ending) + 1, Len(target)))

C40_NoContentLost ==
    ChunkEnded => Reproduces(unit.items, 1, NonWhite(unit.text))

====
